---- MODULE Spec2Model ----
(***************************************************************************)
(* A state-machine model of the 3DS emulator core (src/src/core): the      *)
(* cycle scheduler, the kernel's handle tables and IPC pump, the ARM11     *)
(* CPU's mode/exception machinery and the section MMU with its TLB,        *)
(* the memory bus, the IPC codec, the interrupt controller, the timing     *)
(* model, the emulator's run loop with its DMA engine, and the PICA GPU.   *)
(* Each subsystem has its own specification (SpecSched, SpecKernel,        *)
(* SpecCpu, SpecMmu, ...) over the shared variables; a specification       *)
(* leaves the other subsystems' variables unchanged.                       *)
(***************************************************************************)
EXTENDS Integers, Sequences, FiniteSets, TLC

VARIABLES
    sched,      \* scheduler.rs Scheduler {cycles, next_order, pending}
    drained,    \* the sorted `due` vector of the last drain_due_events call
    kernel,     \* kernel.rs Kernel (handle counter, processes, ports, ...)
    kghost,     \* history of the IPC traffic: requests issued, responses popped
    cpu,        \* cpu.rs Arm11Cpu (registers, CPSR, SPSRs, banked SP/LR)
    cpuGhost,   \* history of the CPU's mode switches
    mmu,        \* mmu.rs Mmu (control, TTBR0, DACR, cache bits, TLB)
    mem,        \* memory.rs: the translation-table words written to FCRAM
    xlat,       \* the last Mmu::translate call, and the TLB's history
    ram,        \* memory.rs Memory (segments and their bytes)
    memGhost,   \* history of the checked writes
    memRead,    \* the last checked read and its result
    codec,      \* ipc.rs: one message on its way through into_words and parse
    irq,        \* irq.rs IrqController {enabled, pending}
    timing,     \* timing.rs TimingModel, with the cycles ticked since reset
    emu,        \* emulator.rs Emulator3ds: the parts the run loop steers by
    gpu,        \* pica.rs PicaGpu, with the load calls made on it
    shifter     \* cpu.rs: CPSR.C and the last operand-2 shift of a MOV

schedVars == <<sched, drained>>
kernelVars == <<kernel, kghost>>
cpuVars == <<cpu, cpuGhost>>
mmuVars == <<mmu, mem, xlat>>
memVars == <<ram, memGhost, memRead>>
\* The device models added beside the core.
auxVars == <<irq, timing, emu, gpu, shifter>>
vars == <<schedVars, kernelVars, cpuVars, mmuVars, memVars, codec, auxVars>>

\* The variables a subsystem's actions leave alone.
notSched == <<kernelVars, cpuVars, mmuVars, memVars, codec, auxVars>>
notKernel == <<schedVars, cpuVars, mmuVars, memVars, codec, auxVars>>
notCpu == <<schedVars, kernelVars, mmuVars, memVars, codec, auxVars>>
notMmu == <<schedVars, kernelVars, cpuVars, memVars, codec, auxVars>>
notMem == <<schedVars, kernelVars, cpuVars, mmuVars, codec, auxVars>>
notCodec == <<schedVars, kernelVars, cpuVars, mmuVars, memVars, auxVars>>
coreVars == <<schedVars, kernelVars, cpuVars, mmuVars, memVars, codec>>
notIrq == <<coreVars, timing, emu, gpu, shifter>>
notTiming == <<coreVars, irq, emu, gpu, shifter>>
notGpu == <<coreVars, irq, timing, emu, shifter>>
notShifter == <<coreVars, irq, timing, emu, gpu>>
\* The emulator owns a kernel and a memory: its actions change emu, kernel
\* and ram.
notEmu == <<schedVars, kghost, cpuVars, mmuVars, memGhost, memRead, codec,
            irq, timing, gpu, shifter>>

(***************************************************************************)
(* Scheduler (src/src/core/scheduler.rs)                                   *)
(***************************************************************************)

\* Cap on the u64 cycle counter and on fire-at cycles offered to schedule_at.
MaxCycles == 2
\* Cap on the u64 insertion counter next_order (number of schedule calls).
MaxOrder == 3
\* DMA channels offered to DmaCompletion { channel }.
DmaChannels == {0}

\* enum ScheduledDeviceEvent; channel is meaningful for DmaCompletion only.
TimerExpiry == [kind |-> "TimerExpiry", channel |-> 0]
VBlank == [kind |-> "VBlank", channel |-> 0]
DmaCompletion(c) == [kind |-> "DmaCompletion", channel |-> c]

ScheduledDeviceEvent ==
    {TimerExpiry, VBlank} \cup {DmaCompletion(c) : c \in DmaChannels}

\* A plausible slip: v-blank and DMA-completion priorities exchanged.
priority_swapped(event) ==
    CASE event.kind = "TimerExpiry" -> 0
      [] event.kind = "VBlank" -> 2
      [] event.kind = "DmaCompletion" -> 1

priority(event) ==
    CASE event.kind = "TimerExpiry" -> 0
      [] event.kind = "VBlank" -> 1
      [] event.kind = "DmaCompletion" -> 2

\* The key of due.sort_by_key: (e.at_cycle, e.event.priority(), e.order).
SortKey(e) == <<e.at_cycle, priority(e.event), e.order>>

\* Lexicographic <= on the key triples (Rust's Ord for tuples).
KeyLeq(a, b) ==
    \/ a[1] < b[1]
    \/ a[1] = b[1] /\ a[2] < b[2]
    \/ a[1] = b[1] /\ a[2] = b[2] /\ a[3] <= b[3]

\* Body applied to the value of `value`, which is computed once however
\* often Body uses its argument.
Bind(value, Body(_)) == CHOOSE r \in {Body(x) : x \in {value}} : TRUE

\* Vec::sort_by_key is a stable sort: an element goes after every element
\* whose key is <= its own.
RECURSIVE InsertByKey(_, _)
InsertByKey(s, e) ==
    IF s = <<>> THEN <<e>>
    ELSE IF KeyLeq(SortKey(Head(s)), SortKey(e))
         THEN <<Head(s)>> \o InsertByKey(Tail(s), e)
         ELSE <<e>> \o s

RECURSIVE SortByKey(_)
SortByKey(s) ==
    IF s = <<>> THEN <<>>
    ELSE Bind(SortByKey(SubSeq(s, 1, Len(s) - 1)),
              LAMBDA sorted : InsertByKey(sorted, s[Len(s)]))

SchedulerNew == [cycles |-> 0, next_order |-> 0, pending |-> <<>>]

\* Scheduler::tick(cycles); the guard keeps the counter below its cap, far
\* from the u64 saturation point.
SchedTick ==
    \E n \in 1..MaxCycles :
        /\ sched.cycles + n <= MaxCycles
        /\ sched' = [sched EXCEPT !.cycles = sched.cycles + n]
        /\ UNCHANGED <<drained, notSched>>

\* The state after Scheduler::schedule_at(at_cycle, event).
ScheduleAtState(s, at_cycle, event) ==
    [s EXCEPT !.next_order = s.next_order + 1,
              !.pending = Append(s.pending,
                                 [at_cycle |-> at_cycle,
                                  order |-> s.next_order,
                                  event |-> event])]

\* Scheduler::schedule_at
SchedScheduleAt ==
    \E at_cycle \in 0..MaxCycles, event \in ScheduledDeviceEvent :
        /\ sched.next_order < MaxOrder
        /\ sched' = ScheduleAtState(sched, at_cycle, event)
        /\ UNCHANGED <<drained, notSched>>

\* Scheduler::schedule_in: schedule_at(cycles + cycles_from_now, event).
SchedScheduleIn ==
    \E cycles_from_now \in 0..MaxCycles, event \in ScheduledDeviceEvent :
        /\ sched.next_order < MaxOrder
        /\ sched.cycles + cycles_from_now <= MaxCycles
        /\ sched' = ScheduleAtState(sched, sched.cycles + cycles_from_now, event)
        /\ UNCHANGED <<drained, notSched>>

\* A plausible slip: an event firing at the current cycle is not yet due.
DueOf_strict(s) ==
    LET IsDue(e) == e.at_cycle < s.cycles IN SelectSeq(s.pending, IsDue)

\* The `due` vector of drain_due_events before it is sorted.
DueOf(s) ==
    LET IsDue(e) == e.at_cycle <= s.cycles IN SelectSeq(s.pending, IsDue)

\* The `remain` vector of drain_due_events.
RemainOf(s) ==
    LET NotDue(e) == ~(e.at_cycle <= s.cycles) IN SelectSeq(s.pending, NotDue)

\* Scheduler::drain_due_events; the caller receives DrainResult.
SchedDrainDue ==
    /\ sched' = [sched EXCEPT !.pending = RemainOf(sched)]
    /\ drained' = SortByKey(DueOf(sched))
    /\ UNCHANGED notSched

\* The Vec<ScheduledDeviceEvent> returned by the last drain.
DrainResult == [i \in 1..Len(drained) |-> drained[i].event]

InitSched ==
    /\ sched = SchedulerNew
    /\ drained = <<>>

(***************************************************************************)
(* Kernel (src/src/core/kernel.rs, ipc.rs, fs.rs)                          *)
(***************************************************************************)

\* Process ids offered to the kernel API: 1..MaxPid (ProcessId is a u32).
MaxPid == 2
\* Largest value of the Handle type.  The source's Handle is a u32
\* (2^32 - 1); the model keeps the type's saturating arithmetic on a
\* narrower range so that the top of the range is within reach.
HandleMax == 38
\* Cap on the number of queue_ipc_command calls per process.
MaxIssued == 2
\* Largest budget offered to pump_ipc_events.
MaxBudget == 2

KERNEL_PROCESS_ID == 1
\* Kernel::new: next_handle: 0x20.
FirstHandle == 32

Pids == 1..MaxPid

\* Result codes (ipc.rs).  Three of the four u32 values are above 2^31 - 1,
\* so the codes are kept symbolic.
RESULT_OK == "RESULT_OK"
RESULT_NOT_FOUND == "RESULT_NOT_FOUND"
RESULT_INVALID_HANDLE == "RESULT_INVALID_HANDLE"
RESULT_INVALID_COMMAND == "RESULT_INVALID_COMMAND"

\* Option::None of the API's Option<...> return values and fields.
None == [none |-> TRUE]
Some(value) == [none |-> FALSE, value |-> value]

\* Finite maps (HashMap): functions with the keys as domain.
MapPut(f, key, value) ==
    [x \in DOMAIN f \cup {key} |-> IF x = key THEN value ELSE f[x]]
MapRemove(f, key) == [x \in DOMAIN f \ {key} |-> f[x]]
MapGet(f, key) == IF key \in DOMAIN f THEN Some(f[key]) ELSE None

\* enum KernelObject.  word carries the payload that is not a service
\* target: nothing for ports, sessions and events, the file's path word for
\* files.
Port(target) == [type |-> "Port", target |-> target, archive |-> "-", word |-> 0]
Session(target) ==
    [type |-> "Session", target |-> target, archive |-> "-", word |-> 0]
Event == [type |-> "Event", target |-> "-", archive |-> "-", word |-> 0]
Archive(archive) ==
    [type |-> "Archive", target |-> "-", archive |-> archive, word |-> 0]
File(archive, word) ==
    [type |-> "File", target |-> "-", archive |-> archive, word |-> word]

\* ipc.rs service_name_words for the names the model uses: the name's bytes,
\* NUL-padded to eight, as two little-endian words.
service_name_words(name) ==
    CASE name = "srv:" -> <<980841075, 0>>
      [] name = "fs:USER" -> <<1429893990, 5391699>>
      [] name = "apt:u" -> <<980709473, 117>>
      [] name = "gsp::Gpu" -> <<980448103, 1970292538>>
      [] name = "hid:USER" -> <<979659112, 1380275029>>
      [] name = "new:svc" -> <<980903278, 6518387>>
      [] name = "nope" -> <<1701867374, 0>>

KnownNames ==
    {"srv:", "fs:USER", "apt:u", "gsp::Gpu", "hid:USER", "new:svc", "nope"}

\* ipc.rs service_name_from_words: the bytes of the two words up to the
\* first NUL.  Word pairs that spell none of the model's names decode to a
\* name no service carries.
service_name_from_words(words) ==
    IF \E n \in KnownNames : service_name_words(n) = words
    THEN CHOOSE n \in KnownNames : service_name_words(n) = words
    ELSE "?"

\* CommandHeader::parse.  A word at or above 2^31 is held as its two's
\* complement; \div rounds down and % is non-negative, so the fields come
\* out as for the unsigned word.
CommandHeaderParse(raw) ==
    [command_id |-> raw % 65536,
     normal_words |-> (raw \div 65536) % 1024,
     translate_words |-> (raw \div 67108864) % 64]

\* The descriptor loop of IpcMessage::parse from word position offset
\* (1-based) with `left` translate words still to consume; None when a word
\* is missing or a tag's kind is not 0x8, 0x9 or 0xA.
RECURSIVE ParseDescriptors(_, _, _)
ParseDescriptors(raw_words, offset, left) ==
    IF left <= 0 THEN Some(<<>>)
    ELSE IF offset > Len(raw_words) THEN None
    ELSE LET tag == raw_words[offset]
             kind == (tag \div 268435456) % 16
         IN  IF kind = 8 \/ kind = 9
             THEN LET rest == ParseDescriptors(raw_words, offset + 1, left - 1)
                  IN  IF rest.none THEN None
                      ELSE Some(<<[kind |-> kind, handle |-> tag % 268435456,
                                   index |-> 0, address |-> 0, size |-> 0]>>
                                \o rest.value)
             ELSE IF kind = 10
             THEN IF offset + 1 > Len(raw_words) THEN None
                  ELSE LET rest == ParseDescriptors(raw_words, offset + 2, left - 2)
                       IN  IF rest.none THEN None
                           ELSE Some(<<[kind |-> kind, handle |-> 0,
                                        index |-> (tag \div 16777216) % 16,
                                        address |-> raw_words[offset + 1],
                                        size |-> tag % 16777216]>>
                                     \o rest.value)
             ELSE None

\* IpcMessage::parse (with CommandBuffer::parse).
IpcMessageParse(raw_words) ==
    IF raw_words = <<>> THEN None
    ELSE LET header == CommandHeaderParse(Head(raw_words))
             tail == Tail(raw_words)
         IN  IF Len(tail) < header.normal_words THEN None
             ELSE LET descriptors ==
                          ParseDescriptors(raw_words, 2 + header.normal_words,
                                           header.translate_words)
                  IN  IF descriptors.none THEN None
                      ELSE Some([command_id |-> header.command_id,
                                 normal_words |->
                                     SubSeq(tail, 1, header.normal_words),
                                 descriptors |-> descriptors.value])

\* The message queue_ipc_command falls back to when parsing fails.
DefaultMessage == [command_id |-> 0, normal_words |-> <<>>, descriptors |-> <<>>]

\* ServiceRegistry::bootstrap: name -> ServiceDefinition.
RegistryBootstrap ==
    [name \in {"srv:", "fs:USER", "apt:u", "gsp::Gpu", "hid:USER"} |->
        CASE name = "srv:" -> [target |-> "Srv", max_sessions |-> 16]
          [] name = "fs:USER" -> [target |-> "Fs", max_sessions |-> 8]
          [] name = "apt:u" -> [target |-> "Apt", max_sessions |-> 4]
          [] name = "gsp::Gpu" -> [target |-> "GspGpu", max_sessions |-> 4]
          [] name = "hid:USER" -> [target |-> "HidUser", max_sessions |-> 4]]

\* ProcessState::default()
ProcessStateDefault ==
    [handles |-> <<>>, pending_requests |-> <<>>, pending_responses |-> <<>>,
     last_result_code |-> RESULT_OK]

\* u32::saturating_add(1) on the Handle type.
SaturatingInc(handle) == IF handle >= HandleMax THEN HandleMax ELSE handle + 1

\* Kernel::ensure_process
EnsureProcess(k, pid) ==
    IF pid \in DOMAIN k.processes THEN k
    ELSE [k EXCEPT !.processes = MapPut(@, pid, ProcessStateDefault)]

\* Kernel::lookup_object
LookupObject(k, pid, handle) ==
    IF pid \in DOMAIN k.processes
    THEN MapGet(k.processes[pid].handles, handle)
    ELSE None

\* Kernel::allocate_handle: the kernel after the call and the handle returned.
AllocateHandle(k, pid, object) ==
    LET handle == k.next_handle
        k1 == [k EXCEPT !.next_handle = SaturatingInc(@)]
    IN  [k |-> IF pid \in DOMAIN k1.processes
               THEN [k1 EXCEPT !.processes[pid].handles =
                                   MapPut(@, handle, object)]
               ELSE k1,
         ret |-> handle]

\* Kernel::register_service_port
RegisterServicePort(k, pid, name, max_sessions) ==
    LET k1 == EnsureProcess(k, pid)
        target == IF name \in DOMAIN k1.registry
                  THEN k1.registry[name].target ELSE "Srv"
        a == AllocateHandle(k1, pid, Port(target))
    IN  [k |-> [a.k EXCEPT !.service_ports = MapPut(@, name, <<pid, a.ret>>)],
         ret |-> a.ret]

\* Kernel::connect_to_service: ret is Some(handle) or None.
ConnectToService(k, pid, name) ==
    LET k1 == EnsureProcess(k, pid)
    IN  IF name \notin DOMAIN k1.service_ports THEN [k |-> k1, ret |-> None]
        ELSE LET owner_pid == k1.service_ports[name][1]
                 port_handle == k1.service_ports[name][2]
                 object == LookupObject(k1, owner_pid, port_handle)
             IN  IF object.none \/ object.value.type # "Port"
                 THEN [k |-> k1, ret |-> None]
                 ELSE LET a == AllocateHandle(k1, pid,
                                              Session(object.value.target))
                      IN  [k |-> a.k, ret |-> Some(a.ret)]

\* Kernel::create_event
CreateEvent(k, pid) == AllocateHandle(k, pid, Event)

\* Kernel::duplicate_handle: ret is Some(new handle) or None.
DuplicateHandle(k, pid, handle) ==
    LET obj == LookupObject(k, pid, handle)
    IN  IF obj.none THEN [k |-> k, ret |-> None]
        ELSE LET a == AllocateHandle(k, pid, obj.value)
             IN  [k |-> a.k, ret |-> Some(a.ret)]

\* Kernel::close_handle: ret is whether a binding was removed.
CloseHandle(k, pid, handle) ==
    IF pid \in DOMAIN k.processes /\ handle \in DOMAIN k.processes[pid].handles
    THEN [k |-> [k EXCEPT !.processes[pid].handles = MapRemove(@, handle)],
          ret |-> TRUE]
    ELSE [k |-> k, ret |-> FALSE]

\* Kernel::handle_type
HandleType(k, pid, handle) ==
    LET obj == LookupObject(k, pid, handle)
    IN  IF obj.none THEN None ELSE Some(obj.value.type)

\* The (result_code, words) pair of a dispatch, with the kernel after it.
Reply(k, result_code, words) ==
    [k |-> k, result_code |-> result_code, words |-> words]

\* Kernel::dispatch_srv
DispatchSrv(k, pid, msg) ==
    IF msg.command_id = 1
    THEN IF Len(msg.normal_words) < 3 THEN Reply(k, RESULT_INVALID_COMMAND, <<>>)
         ELSE LET name == service_name_from_words(SubSeq(msg.normal_words, 1, 2))
                  max_sessions == msg.normal_words[3]
                  k1 == [k EXCEPT !.registry =
                             MapPut(@, name, [target |-> "Srv",
                                              max_sessions |-> max_sessions])]
                  r == RegisterServicePort(k1, pid, name, max_sessions)
              IN  Reply(r.k, RESULT_OK, <<r.ret>>)
    ELSE IF msg.command_id = 5
    THEN IF Len(msg.normal_words) < 2 THEN Reply(k, RESULT_INVALID_COMMAND, <<>>)
         ELSE LET name == service_name_from_words(SubSeq(msg.normal_words, 1, 2))
                  c == ConnectToService(k, pid, name)
              IN  IF c.ret.none THEN Reply(c.k, RESULT_NOT_FOUND, <<>>)
                  ELSE Reply(c.k, RESULT_OK, <<c.ret.value>>)
    ELSE Reply(k, RESULT_INVALID_COMMAND, <<>>)

\* fs.rs ArchiveId::from_raw with VirtualFileSystem::open_archive.
OpenArchive(k, raw_id) ==
    IF raw_id \notin 0..3 THEN None
    ELSE LET archive == <<"Sdmc", "Save", "RomFs", "ExtData">>[raw_id + 1]
         IN  IF archive = "RomFs" /\ ~k.romfs_mounted THEN None
             ELSE Some(archive)

\* Kernel::dispatch_fs.  The files of a mounted RomFs image are not
\* modelled: opening a RomFs path finds nothing, reading a RomFs file too.
DispatchFs(k, pid, msg) ==
    IF msg.command_id = 1
    THEN LET archive_id == IF msg.normal_words = <<>> THEN 0
                           ELSE msg.normal_words[1]
             archive_obj == OpenArchive(k, archive_id)
         IN  IF archive_obj.none THEN Reply(k, RESULT_NOT_FOUND, <<>>)
             ELSE LET a == AllocateHandle(k, pid, Archive(archive_obj.value))
                  IN  Reply(a.k, RESULT_OK, <<a.ret>>)
    ELSE IF msg.command_id = 2
    THEN IF Len(msg.normal_words) < 2 THEN Reply(k, RESULT_INVALID_COMMAND, <<>>)
         ELSE LET obj == LookupObject(k, pid, msg.normal_words[1])
              IN  IF obj.none \/ obj.value.type # "Archive"
                  THEN Reply(k, RESULT_INVALID_HANDLE, <<>>)
                  ELSE IF obj.value.archive = "RomFs"
                  THEN Reply(k, RESULT_NOT_FOUND, <<>>)
                  ELSE LET a == AllocateHandle(
                                    k, pid,
                                    File(obj.value.archive, msg.normal_words[2]))
                       IN  Reply(a.k, RESULT_OK, <<a.ret>>)
    ELSE IF msg.command_id = 3
    THEN IF Len(msg.normal_words) < 3 THEN Reply(k, RESULT_INVALID_COMMAND, <<>>)
         ELSE LET obj == LookupObject(k, pid, msg.normal_words[1])
              IN  IF obj.none \/ obj.value.type # "File"
                  THEN Reply(k, RESULT_INVALID_HANDLE, <<>>)
                  ELSE IF obj.value.archive = "RomFs"
                  THEN Reply(k, RESULT_NOT_FOUND, <<>>)
                  ELSE Reply(k, RESULT_OK, <<0>>)
    ELSE Reply(k, RESULT_INVALID_COMMAND, <<>>)

\* Kernel::dispatch_apt
DispatchApt(k, msg) ==
    IF msg.command_id = 1 THEN Reply(k, RESULT_OK, <<k.app_state>>)
    ELSE IF msg.command_id = 2
    THEN LET state == IF msg.normal_words = <<>> THEN k.app_state
                      ELSE msg.normal_words[1]
         IN  Reply([k EXCEPT !.app_state = state], RESULT_OK, <<state>>)
    ELSE Reply(k, RESULT_INVALID_COMMAND, <<>>)

\* pica.rs PicaCommandBufferPacket::encode(reg, 1, false)
PicaEncode(reg) == reg + 65536

\* The fallback colour 0xFF00_0000 of SetFrameClearColor, as a 32-bit
\* two's-complement value.
DefaultClearColor == -16777216

\* Kernel::dispatch_gsp.  The QueuePixel coordinate word is
\* (y << 16) | (x & 0xFFFF); the model's words keep y below 2^15.
DispatchGsp(k, msg) ==
    IF msg.command_id = 1
    THEN LET color == IF msg.normal_words = <<>> THEN DefaultClearColor
                      ELSE msg.normal_words[1]
         IN  Reply([k EXCEPT !.gpu_handoff =
                        Append(@, <<PicaEncode(512), color>>)],
                   RESULT_OK, <<>>)
    ELSE IF msg.command_id = 2
    THEN IF Len(msg.normal_words) < 3 THEN Reply(k, RESULT_INVALID_COMMAND, <<>>)
         ELSE Reply([k EXCEPT !.gpu_handoff =
                         Append(@, <<PicaEncode(513),
                                     (msg.normal_words[2] % 32768) * 65536
                                         + (msg.normal_words[1] % 65536),
                                     PicaEncode(514),
                                     msg.normal_words[3]>>)],
                    RESULT_OK, <<>>)
    ELSE Reply(k, RESULT_INVALID_COMMAND, <<>>)

\* HidInputState::default()
HidInputStateDefault == [buttons |-> 0, touch_x |-> 0, touch_y |-> 0]

\* Kernel::dispatch_hid
DispatchHid(k, msg) ==
    IF msg.command_id = 1
    THEN Reply([k EXCEPT !.hid_state = HidInputStateDefault], RESULT_OK, <<1>>)
    ELSE IF msg.command_id = 10
    THEN Reply(k, RESULT_OK,
               <<k.hid_state.buttons, k.hid_state.touch_x, k.hid_state.touch_y>>)
    ELSE IF msg.command_id = 11
    THEN IF Len(msg.normal_words) < 3 THEN Reply(k, RESULT_INVALID_COMMAND, <<>>)
         ELSE Reply([k EXCEPT !.hid_state =
                         [buttons |-> msg.normal_words[1],
                          touch_x |-> msg.normal_words[2] % 65536,
                          touch_y |-> msg.normal_words[3] % 65536]],
                    RESULT_OK, <<>>)
    ELSE Reply(k, RESULT_INVALID_COMMAND, <<>>)

\* A plausible slip: a handle bound to an object that is not a session is
\* answered not-found.
DispatchRequest_notfound(k, pid, req) ==
    LET object == LookupObject(k, pid, req.session_handle)
    IN  IF object.none THEN Reply(k, RESULT_INVALID_HANDLE, <<>>)
        ELSE IF object.value.type # "Session"
        THEN Reply(k, RESULT_NOT_FOUND, <<>>)
        ELSE CASE object.value.target = "Srv" -> DispatchSrv(k, pid, req.message)
               [] object.value.target = "Fs" -> DispatchFs(k, pid, req.message)
               [] object.value.target = "Apt" -> DispatchApt(k, req.message)
               [] object.value.target = "GspGpu" -> DispatchGsp(k, req.message)
               [] object.value.target = "HidUser" -> DispatchHid(k, req.message)

\* Kernel::dispatch_request
DispatchRequest(k, pid, req) ==
    LET object == LookupObject(k, pid, req.session_handle)
    IN  IF object.none \/ object.value.type # "Session"
        THEN Reply(k, RESULT_INVALID_HANDLE, <<>>)
        ELSE CASE object.value.target = "Srv" -> DispatchSrv(k, pid, req.message)
               [] object.value.target = "Fs" -> DispatchFs(k, pid, req.message)
               [] object.value.target = "Apt" -> DispatchApt(k, req.message)
               [] object.value.target = "GspGpu" -> DispatchGsp(k, req.message)
               [] object.value.target = "HidUser" -> DispatchHid(k, req.message)

\* A plausible slip: the pump takes the newest request (pop_back) instead of
\* the oldest.
PumpOne_newest(k, pid) ==
    LET reqs == k.processes[pid].pending_requests
        req == reqs[Len(reqs)]
        k1 == [k EXCEPT !.processes[pid].pending_requests =
                            SubSeq(reqs, 1, Len(reqs) - 1)]
        d == DispatchRequest(k1, pid, req)
    IN  [d.k EXCEPT !.last_ipc =
                        Some(<<req.message.command_id, req.session_handle,
                               d.result_code>>),
                    !.processes[pid].last_result_code = d.result_code,
                    !.processes[pid].pending_responses =
                        Append(@, [result_code |-> d.result_code,
                                   words |-> d.words,
                                   seq |-> req.seq])]

\* One iteration of the pump_ipc_events loop for the selected process: pop
\* its oldest request, dispatch it, record last_ipc and push the response.
\* The response carries the request's issue number (seq, history only).
PumpOne(k, pid) ==
    LET req == Head(k.processes[pid].pending_requests)
        k1 == [k EXCEPT !.processes[pid].pending_requests = Tail(@)]
        d == DispatchRequest(k1, pid, req)
        k2 == [d.k EXCEPT !.last_ipc =
                   Some(<<req.message.command_id, req.session_handle,
                          d.result_code>>)]
    IN  IF pid \in DOMAIN k2.processes
        THEN [k2 EXCEPT !.processes[pid].last_result_code = d.result_code,
                        !.processes[pid].pending_responses =
                            Append(@, [result_code |-> d.result_code,
                                       words |-> d.words,
                                       seq |-> req.seq])]
        ELSE k2

\* The orders in which iterating the `processes` HashMap can visit its keys.
IterationOrders(k) ==
    LET keys == DOMAIN k.processes
    IN  {order \in [1..Cardinality(keys) -> keys] :
            \A pid \in keys : \E i \in DOMAIN order : order[i] = pid}

\* The first process in iteration order with a pending request, or 0.
FirstReady(k, order) ==
    LET ready == {i \in DOMAIN order :
                     k.processes[order[i]].pending_requests # <<>>}
    IN  IF ready = {} THEN 0
        ELSE order[CHOOSE i \in ready : \A j \in ready : i <= j]

\* Kernel::pump_ipc_events; the map is not resized during the call, so one
\* iteration order serves all iterations.
RECURSIVE PumpIpcEvents(_, _, _)
PumpIpcEvents(k, order, budget) ==
    IF budget = 0 \/ FirstReady(k, order) = 0 THEN k
    ELSE PumpIpcEvents(PumpOne(k, FirstReady(k, order)), order, budget - 1)

\* Kernel::queue_ipc_command; seq is the request's issue number.
QueueIpcCommand(k, pid, session_handle, words, seq) ==
    LET k1 == EnsureProcess(k, pid)
        parsed == IpcMessageParse(words)
        message == IF parsed.none THEN DefaultMessage ELSE parsed.value
    IN  IF pid \in DOMAIN k1.processes
        THEN [k1 EXCEPT !.processes[pid].pending_requests =
                            Append(@, [session_handle |-> session_handle,
                                       message |-> message,
                                       seq |-> seq])]
        ELSE k1

\* Kernel::pop_ipc_response: ret is Some(response) or None.
PopIpcResponse(k, pid) ==
    IF pid \in DOMAIN k.processes /\ k.processes[pid].pending_responses # <<>>
    THEN [k |-> [k EXCEPT !.processes[pid].pending_responses = Tail(@)],
          ret |-> Some(Head(k.processes[pid].pending_responses))]
    ELSE [k |-> k, ret |-> None]

\* Kernel::bootstrap_services for one iteration order of the registry.
RECURSIVE BootstrapServices(_, _, _)
BootstrapServices(k, pid, names) ==
    IF names = <<>> THEN k
    ELSE BootstrapServices(
             RegisterServicePort(k, pid, Head(names),
                                 k.registry[Head(names)].max_sessions).k,
             pid, Tail(names))

\* Kernel::new for one iteration order of the registry's HashMap.
KernelNew(names) ==
    BootstrapServices(
        EnsureProcess([next_handle |-> FirstHandle,
                       processes |-> <<>>,
                       service_ports |-> <<>>,
                       registry |-> RegistryBootstrap,
                       app_state |-> 1,
                       gpu_handoff |-> <<>>,
                       hid_state |-> HidInputStateDefault,
                       romfs_mounted |-> FALSE,
                       last_ipc |-> None],
                      KERNEL_PROCESS_ID),
        KERNEL_PROCESS_ID, names)

\* Iteration orders of the bootstrap registry offered to Kernel::new: the
\* registration order and its reverse.
BootOrders ==
    {<<"srv:", "fs:USER", "apt:u", "gsp::Gpu", "hid:USER">>,
     <<"hid:USER", "gsp::Gpu", "apt:u", "fs:USER", "srv:">>}

\* A command buffer: header word (command id, normal word count, no
\* translate words) followed by the normal words.
CommandWords(command_id, normal_words) ==
    <<command_id + 65536 * Len(normal_words)>> \o normal_words

\* Kernel::ensure_process(pid)
KEnsureProcess(pid) ==
    /\ kernel' = EnsureProcess(kernel, pid)
    /\ UNCHANGED <<kghost, notKernel>>

\* Kernel::create_event(pid, name)
KCreateEvent(pid) ==
    /\ kernel' = CreateEvent(kernel, pid).k
    /\ UNCHANGED <<kghost, notKernel>>

\* Kernel::duplicate_handle(pid, handle)
KDuplicateHandle(pid, handle) ==
    /\ kernel' = DuplicateHandle(kernel, pid, handle).k
    /\ UNCHANGED <<kghost, notKernel>>

\* Kernel::close_handle(pid, handle)
KCloseHandle(pid, handle) ==
    /\ kernel' = CloseHandle(kernel, pid, handle).k
    /\ UNCHANGED <<kghost, notKernel>>

\* Kernel::connect_to_service(pid, name)
KConnectToService(pid, name) ==
    /\ kernel' = ConnectToService(kernel, pid, name).k
    /\ UNCHANGED <<kghost, notKernel>>

\* Kernel::register_service_port(pid, name, max_sessions)
KRegisterServicePort(pid, name, max_sessions) ==
    /\ kernel' = RegisterServicePort(kernel, pid, name, max_sessions).k
    /\ UNCHANGED <<kghost, notKernel>>

\* Kernel::queue_ipc_command(pid, session_handle, words)
KQueueIpcCommand(pid, session_handle, words) ==
    /\ kghost.issued[pid] < MaxIssued
    /\ kernel' = QueueIpcCommand(kernel, pid, session_handle, words,
                                 kghost.issued[pid] + 1)
    /\ kghost' = [kghost EXCEPT !.issued[pid] = @ + 1]
    /\ UNCHANGED notKernel

\* Kernel::pump_ipc_events(budget), the `processes` map iterating in `order`.
KPumpIpcEvents(budget, order) ==
    /\ kernel' = PumpIpcEvents(kernel, order, budget)
    /\ UNCHANGED <<kghost, notKernel>>

\* Kernel::pop_ipc_response(pid); the caller receives the response, whose
\* issue number is appended to the history.
KPopIpcResponse(pid) ==
    LET r == PopIpcResponse(kernel, pid)
    IN  /\ kernel' = r.k
        /\ kghost' = IF r.ret.none THEN kghost
                     ELSE [kghost EXCEPT !.popped[pid] =
                                             Append(@, r.ret.value.seq)]
        /\ UNCHANGED notKernel

KernelIdle ==
    /\ kernel = KernelNew(<<"srv:", "fs:USER", "apt:u", "gsp::Gpu", "hid:USER">>)
    /\ kghost = [issued |-> [pid \in Pids |-> 0],
                 popped |-> [pid \in Pids |-> <<>>]]

InitKernel ==
    /\ kernel \in {KernelNew(names) : names \in BootOrders}
    /\ kghost = [issued |-> [pid \in Pids |-> 0],
                 popped |-> [pid \in Pids |-> <<>>]]

(***************************************************************************)
(* ARM11 CPU: modes, banked registers, exception entry and return          *)
(* (src/src/core/cpu.rs)                                                   *)
(***************************************************************************)

\* Cap on the number of instructions executed and interrupts taken.
MaxCpuSteps == 5
\* Largest immediate offered to the instructions that write SP or LR.
MaxRegValue == 2

MODE_USR == 16
MODE_IRQ == 18
MODE_SVC == 19
MODE_ABT == 23
MODE_UND == 27
\* A mode number outside the five the CPU banks registers for (FIQ, 0x11).
MODE_FIQ == MODE_USR + 1

VECTOR_BASE == 1048576
VECTOR_UND == VECTOR_BASE + 4
VECTOR_SWI == VECTOR_BASE + 8
VECTOR_PABT == VECTOR_BASE + 12
VECTOR_DABT == VECTOR_BASE + 16
VECTOR_IRQ == VECTOR_BASE + 24

Modes == {MODE_USR, MODE_IRQ, MODE_SVC, MODE_ABT, MODE_UND}
ExceptionModes == Modes \ {MODE_USR}

\* The Z bit within the NZCV nibble (N = 8, Z = 4, C = 2, V = 1).
NibbleZ == 4
NibbleC == 2

\* A program status register: the NZCV nibble (bits 31..28), the I bit
\* (bit 7), the T bit (bit 5) and the mode field (bits 4..0).
Psr(flags, i, t, mode) == [flags |-> flags, i |-> i, t |-> t, mode |-> mode]

\* Arm11Cpu::new: the registers and status registers the model follows.
CpuNew ==
    [regs |-> [sp |-> 0, lr |-> 0, pc |-> 0],
     cpsr |-> Psr(0, FALSE, FALSE, MODE_USR),
     spsr |-> [m \in ExceptionModes |-> Psr(0, FALSE, FALSE, MODE_USR)],
     bank |-> [m \in Modes |-> [sp |-> 0, lr |-> 0]],
     last_exception |-> None]

\* Arm11Cpu::mode
Mode(c) == c.cpsr.mode

\* Arm11Cpu::is_privileged
IsPrivileged(c) == Mode(c) # MODE_USR

\* Arm11Cpu::current_spsr: Some(spsr) in an exception mode, None otherwise.
CurrentSpsr(c) ==
    IF Mode(c) \in ExceptionModes THEN Some(c.spsr[Mode(c)]) ELSE None

\* Arm11Cpu::set_current_spsr: writes the SPSR of the mode the CPU is in.
SetCurrentSpsr(c, value) ==
    IF Mode(c) \in ExceptionModes THEN [c EXCEPT !.spsr[Mode(c)] = value]
    ELSE c

\* Arm11Cpu::banked_sp_lr_mut: the bank a mode number selects; numbers
\* outside the five modes fall back to the user bank.
BankOf(mode) == IF mode \in Modes THEN mode ELSE MODE_USR

\* A plausible slip: the pair of the mode being left is not saved.
SwitchMode_nosave(c, new_mode) ==
    IF Mode(c) = new_mode THEN c
    ELSE [c EXCEPT !.regs.sp = c.bank[BankOf(new_mode)].sp,
                   !.regs.lr = c.bank[BankOf(new_mode)].lr,
                   !.cpsr.mode = new_mode]

\* Arm11Cpu::switch_mode
SwitchMode(c, new_mode) ==
    IF Mode(c) = new_mode THEN c
    ELSE LET saved == [c EXCEPT !.bank[BankOf(Mode(c))] =
                                    [sp |-> c.regs.sp, lr |-> c.regs.lr]]
         IN  [saved EXCEPT !.regs.sp = saved.bank[BankOf(new_mode)].sp,
                           !.regs.lr = saved.bank[BankOf(new_mode)].lr,
                           !.cpsr.mode = new_mode]

\* Arm11Cpu::restore_cpsr_from_spsr
RestoreCpsrFromSpsr(c) ==
    LET saved == CurrentSpsr(c)
    IN  IF saved.none THEN c
        ELSE [SwitchMode(c, saved.value.mode) EXCEPT !.cpsr = saved.value]

\* The (vector, mode) an exception kind selects in take_exception.
VectorOf(kind) ==
    CASE kind = "UndefinedInstruction" -> VECTOR_UND
      [] kind = "SoftwareInterrupt" -> VECTOR_SWI
      [] kind = "PrefetchAbort" -> VECTOR_PABT
      [] kind = "DataAbort" -> VECTOR_DABT
      [] kind = "Interrupt" -> VECTOR_IRQ

ModeOfException(kind) ==
    CASE kind = "UndefinedInstruction" -> MODE_UND
      [] kind = "SoftwareInterrupt" -> MODE_SVC
      [] kind = "PrefetchAbort" -> MODE_ABT
      [] kind = "DataAbort" -> MODE_ABT
      [] kind = "Interrupt" -> MODE_IRQ

ExceptionKinds ==
    {"UndefinedInstruction", "SoftwareInterrupt", "PrefetchAbort", "DataAbort",
     "Interrupt"}

\* A plausible slip: a data abort returns to pc + 4 like the other kinds.
ReturnAddress_abort4(kind, pc, lr_plus_4) ==
    IF kind = "PrefetchAbort" THEN pc + 4
    ELSE IF kind = "DataAbort" THEN pc + 4
    ELSE IF lr_plus_4 THEN pc + 4
    ELSE pc

\* The return address take_exception puts into LR.
ReturnAddress(kind, pc, lr_plus_4) ==
    IF kind = "PrefetchAbort" THEN pc + 4
    ELSE IF kind = "DataAbort" THEN pc + 8
    ELSE IF lr_plus_4 THEN pc + 4
    ELSE pc

\* Arm11Cpu::take_exception, statement by statement: the SPSR write is made
\* before the mode switch.
TakeException(c, kind, pc, lr_plus_4) ==
    LET spsr_set == SetCurrentSpsr(c, c.cpsr)
        switched == SwitchMode(spsr_set, ModeOfException(kind))
    IN  [switched EXCEPT !.regs.lr = ReturnAddress(kind, pc, lr_plus_4),
                         !.regs.pc = VectorOf(kind),
                         !.cpsr.i = TRUE,
                         !.cpsr.t = FALSE,
                         !.last_exception =
                             Some([kind |-> kind,
                                   vector |-> VectorOf(kind),
                                   return_address |->
                                       ReturnAddress(kind, pc, lr_plus_4)])]

\* exec_system, MSR: the flags are always written; a privileged caller also
\* switches to a banked mode and writes T and I.
ExecMsr(c, value) ==
    LET flagged == [c EXCEPT !.cpsr.flags = value.flags]
    IN  IF ~IsPrivileged(flagged) THEN flagged
        ELSE LET moded == IF value.mode \in Modes
                          THEN SwitchMode(flagged, value.mode) ELSE flagged
             IN  [moded EXCEPT !.cpsr.t = value.t, !.cpsr.i = value.i]

\* update_nzcv_logical for a result below 2^31 and an unshifted operand: N
\* clear, Z from the result, C kept (the shifter carry-out is the C flag), V
\* kept.
LogicalFlags(flags, result) ==
    LET c_bit == (flags \div NibbleC) % 2
        v_bit == flags % 2
    IN  (IF result = 0 THEN NibbleZ ELSE 0) + NibbleC * c_bit + v_bit

\* exec_data_processing for MOVS PC, LR: PC takes LR, the flags are set from
\* the result, then the CPSR is restored from the SPSR of the current mode.
ExecMovsPcLr(c) ==
    RestoreCpsrFromSpsr(
        [c EXCEPT !.regs.pc = c.regs.lr,
                  !.cpsr.flags = LogicalFlags(c.cpsr.flags, c.regs.lr)])

\* History kept beside the CPU: the number of steps taken, the last
\* operation, for each mode the SP/LR pair visible when it was last left,
\* the pair the last mode switch loaded, and the open exception frames
\* (interrupted mode m0 with its visible SP s0 and LR l0, and the mode m the
\* exception entered), innermost first.  Entering a mode that an open frame
\* already uses overwrites that mode's LR, so the older frames are dropped.
CpuGhostNew ==
    [steps |-> 0,
     op |-> "reset",
     left |-> [m \in Modes |-> [sp |-> 0, lr |-> 0]],
     entered |-> [sp |-> 0, lr |-> 0],
     frames |-> <<>>]

\* The history after a step from CPU state c to c2 by operation op; loaded
\* is the pair a mode switch of the step brought in.
GhostStep(g, c, c2, op, loaded) ==
    LET switched == Mode(c2) # Mode(c)
        frame == [m0 |-> Mode(c), s0 |-> c.regs.sp, l0 |-> c.regs.lr,
                  m |-> Mode(c2)]
    IN  [steps |-> g.steps + 1,
         op |-> op,
         left |-> IF switched
                  THEN [g.left EXCEPT ![Mode(c)] =
                                          [sp |-> c.regs.sp, lr |-> c.regs.lr]]
                  ELSE g.left,
         entered |-> IF switched THEN loaded ELSE g.entered,
         frames |-> IF op \in ExceptionKinds
                    THEN IF \E k \in DOMAIN g.frames :
                                Mode(c2) \in {g.frames[k].m0, g.frames[k].m}
                         THEN <<frame>>
                         ELSE <<frame>> \o g.frames
                    ELSE IF op = "MOVS"
                    THEN IF g.frames # <<>> /\ Head(g.frames).m = Mode(c)
                         THEN Tail(g.frames) ELSE <<>>
                    ELSE IF switched THEN <<>>
                    ELSE g.frames]

\* The SP/LR pair visible in CPU state c.
Visible(c) == [sp |-> c.regs.sp, lr |-> c.regs.lr]

\* One step of the CPU from `cpu` to c2 by operation op.
CpuStep(c2, op, loaded) ==
    /\ cpuGhost.steps < MaxCpuSteps
    /\ cpu' = c2
    /\ cpuGhost' = GhostStep(cpuGhost, cpu, c2, op, loaded)
    /\ UNCHANGED notCpu

\* fetch_instruction / fetch_thumb_instruction: the alignment check on the
\* address fetched from.  A fetch that fails it takes a prefetch abort.
FetchAligned(c) ==
    IF c.cpsr.t THEN c.regs.pc % 2 = 0 ELSE c.regs.pc % 4 = 0

\* step_arm on MOV SP, #value or MOV LR, #value (ARM state).
CpuMovImm(rd, value) ==
    /\ ~cpu.cpsr.t
    /\ FetchAligned(cpu)
    /\ LET c2 == IF rd = "sp"
                 THEN [cpu EXCEPT !.regs.pc = @ + 4, !.regs.sp = value]
                 ELSE [cpu EXCEPT !.regs.pc = @ + 4, !.regs.lr = value]
       IN  CpuStep(c2, "MOV", Visible(c2))

\* step_arm on a comparison that leaves `flags` in NZCV (ARM state).
CpuSetFlags(flags) ==
    /\ ~cpu.cpsr.t
    /\ FetchAligned(cpu)
    /\ LET c2 == [cpu EXCEPT !.regs.pc = @ + 4, !.cpsr.flags = flags]
       IN  CpuStep(c2, "CMP", Visible(c2))

\* The exception entries of step_arm / step_thumb and enter_irq.  SWI is
\* decoded in ARM state only; the emulator delivers an IRQ only while the I
\* bit is clear (emulator.rs run loop).
CpuTakeException(kind) ==
    /\ kind = "SoftwareInterrupt" => ~cpu.cpsr.t
    /\ kind = "Interrupt" => ~cpu.cpsr.i
    /\ kind \in {"SoftwareInterrupt", "UndefinedInstruction", "DataAbort"}
           => FetchAligned(cpu)
    /\ LET pc == cpu.regs.pc
           fetched == IF kind \in {"SoftwareInterrupt", "UndefinedInstruction",
                                   "DataAbort"}
                      THEN [cpu EXCEPT !.regs.pc =
                                           IF cpu.cpsr.t THEN pc + 2 ELSE pc + 4]
                      ELSE cpu
           c2 == TakeException(fetched, kind, pc, kind # "DataAbort")
       IN  CpuStep(c2, kind,
                   Visible(SwitchMode(SetCurrentSpsr(fetched, fetched.cpsr),
                                      ModeOfException(kind))))

\* step_arm on MSR CPSR, Rm with Rm holding `value` (ARM state).
CpuMsr(value) ==
    /\ ~cpu.cpsr.t
    /\ FetchAligned(cpu)
    /\ LET c2 == ExecMsr([cpu EXCEPT !.regs.pc = @ + 4], value)
       IN  CpuStep(c2, "MSR", Visible(c2))

\* step_arm on MOVS PC, LR (ARM state).
CpuMovsPcLr ==
    /\ ~cpu.cpsr.t
    /\ FetchAligned(cpu)
    /\ LET c2 == ExecMovsPcLr([cpu EXCEPT !.regs.pc = @ + 4])
       IN  CpuStep(c2, "MOVS", Visible(c2))

InitCpu ==
    /\ cpu = CpuNew
    /\ cpuGhost = CpuGhostNew

\* Values MSR is given: every banked mode and an unbanked one with I, T and
\* the flags clear, supervisor with Z and I set, user with T set.
MsrInputs ==
    {Psr(0, FALSE, FALSE, m) : m \in Modes \cup {MODE_FIQ}}
        \cup {Psr(NibbleZ, TRUE, FALSE, MODE_SVC), Psr(0, FALSE, TRUE, MODE_USR)}

(***************************************************************************)
(* Section MMU with its TLB (src/src/core/mmu.rs) over the table words in  *)
(* memory (src/src/core/memory.rs)                                         *)
(***************************************************************************)

\* memory.rs FCRAM_SIZE: FCRAM is mapped, zero-filled and writable at
\* 0 .. FCRAM_SIZE - 1.
FCRAM_SIZE == 134217728
\* An address no segment is mapped at (between the ROM window and IO).
UnmappedAddr == 2 * FCRAM_SIZE

SectionSize == 1048576

\* MemoryAccessKind
AccessKinds == {"Read", "Write", "Execute"}

\* A first-level descriptor word: section base (bits 31..20), APX (bit 15),
\* AP (bits 11..10), domain (bits 8..5), XN (bit 4), type (bits 1..0).
Descriptor(pa_section, apx, ap, domain, xn, type) ==
    pa_section + 32768 * apx + 1024 * ap + 32 * domain + 16 * xn + type

\* The word of memory at an aligned address; FCRAM is zero-filled until
\* written.
MemWord(m, addr) == IF addr \in DOMAIN m THEN m[addr] ELSE 0

\* Memory::read_u32_checked: Some(word), or None for a bus error when one of
\* the four bytes lies outside every mapped segment.
ReadU32Checked(m, addr) ==
    IF addr + 3 < FCRAM_SIZE THEN Some(MemWord(m, addr)) ELSE None

\* Memory::write_u32_checked to FCRAM.
WriteU32(m, addr, word) == MapPut(m, addr, word)

\* Mmu::new
MmuNew ==
    [control |-> 0, ttbr0 |-> 0, dacr |-> 0,
     icache_enabled |-> FALSE, dcache_enabled |-> FALSE, tlb |-> <<>>]

\* Mmu::mmu_enabled: bit 0 of the control register.
MmuEnabled(m) == m.control % 2 = 1

\* Mmu::invalidate_tlb
InvalidateTlb(m) == [m EXCEPT !.tlb = <<>>]

\* Mmu::write_control: the TLB is cleared when the enable bit, the I-cache
\* bit (12) or the D-cache bit (2) changes.
WriteControl(m, value) ==
    LET m2 == [m EXCEPT !.control = value,
                        !.icache_enabled = (value \div 4096) % 2 = 1,
                        !.dcache_enabled = (value \div 4) % 2 = 1]
    IN  IF \/ MmuEnabled(m) # MmuEnabled(m2)
           \/ m.icache_enabled # m2.icache_enabled
           \/ m.dcache_enabled # m2.dcache_enabled
        THEN InvalidateTlb(m2)
        ELSE m2

\* A plausible slip: the new table base is stored without clearing the TLB.
WriteTtbr0_noflush(m, value) == [m EXCEPT !.ttbr0 = value - (value % 16384)]

\* Mmu::write_ttbr0: value & 0xFFFF_C000, then the TLB is cleared.
WriteTtbr0(m, value) == InvalidateTlb([m EXCEPT !.ttbr0 = value - (value % 16384)])

\* Mmu::write_dacr
WriteDacr(m, value) == InvalidateTlb([m EXCEPT !.dacr = value])

\* Results of Mmu::translate: Ok(pa) or the error raised.
Ok(pa) == [ok |-> TRUE, pa |-> pa, fault |-> "-"]
Fault(kind) == [ok |-> FALSE, pa |-> 0, fault |-> kind]

\* The TlbEntry translate builds from a section descriptor.
TlbEntryOf(descriptor) ==
    [pa_section |-> descriptor - (descriptor % SectionSize),
     domain |-> (descriptor \div 32) % 16,
     ap |-> (descriptor \div 1024) % 4,
     apx |-> (descriptor \div 32768) % 2 = 1,
     execute_never |-> (descriptor \div 16) % 2 = 1]

\* The two DACR bits of a domain.
DomainMode(dacr, domain) == (dacr \div (4 ^ domain)) % 4

\* A plausible slip: AP = 10 lets unprivileged callers read but not execute.
CheckDomainAndPermissions_ap10(m, entry, access, privileged) ==
    LET domain_mode == DomainMode(m.dacr, entry.domain)
    IN  IF domain_mode = 0 \/ domain_mode = 2 THEN Fault("Domain")
        ELSE IF domain_mode = 3 THEN Ok(0)
        ELSE IF entry.execute_never /\ access = "Execute"
        THEN Fault("Permission")
        ELSE LET allowed ==
                     CASE entry.ap = 0 -> FALSE
                       [] entry.ap = 1 -> privileged
                       [] entry.ap = 2 -> privileged \/ access = "Read"
                       [] entry.ap = 3 ->
                              IF entry.apx THEN access # "Write" ELSE TRUE
             IN  IF allowed THEN Ok(0) ELSE Fault("Permission")

\* Mmu::check_domain_and_permissions: Ok or the fault.
CheckDomainAndPermissions(m, entry, access, privileged) ==
    LET domain_mode == DomainMode(m.dacr, entry.domain)
    IN  IF domain_mode = 0 \/ domain_mode = 2 THEN Fault("Domain")
        ELSE IF domain_mode = 3 THEN Ok(0)
        ELSE IF entry.execute_never /\ access = "Execute"
        THEN Fault("Permission")
        ELSE LET allowed ==
                     CASE entry.ap = 0 -> FALSE
                       [] entry.ap = 1 -> privileged
                       [] entry.ap = 2 ->
                              privileged \/ access \in {"Read", "Execute"}
                       [] entry.ap = 3 ->
                              IF entry.apx THEN access # "Write" ELSE TRUE
             IN  IF allowed THEN Ok(0) ELSE Fault("Permission")

\* Mmu::translate: the MMU after the call (the TLB may have gained an
\* entry) and the result.
Translate(m, memory, va, access, privileged) ==
    IF ~MmuEnabled(m) THEN [mmu |-> m, result |-> Ok(va)]
    ELSE LET section_key == va - (va % SectionSize)
             desc_addr == m.ttbr0 + (va \div SectionSize) * 4
             descriptor == ReadU32Checked(memory, desc_addr)
             hit == section_key \in DOMAIN m.tlb
             entry == IF hit THEN m.tlb[section_key]
                      ELSE TlbEntryOf(descriptor.value)
             m2 == IF hit THEN m
                   ELSE [m EXCEPT !.tlb = MapPut(@, section_key, entry)]
             check == CheckDomainAndPermissions(m2, entry, access, privileged)
         IN  IF ~hit /\ descriptor.none
             THEN [mmu |-> m, result |-> Fault("Bus")]
             ELSE IF ~hit /\ descriptor.value % 4 # 2
             THEN [mmu |-> m, result |-> Fault("Translation")]
             ELSE IF ~check.ok THEN [mmu |-> m2, result |-> check]
             ELSE [mmu |-> m2,
                   result |-> Ok(entry.pa_section + (va % SectionSize))]

TlbEmpty(m) == DOMAIN m.tlb = {}

\* The record of the last operation on the MMU: the arguments and the result
\* of a translate call (called), whether the section was found in the TLB
\* (hit), and whether a table word was changed in memory since the TLB was
\* last empty (dirty now, clean = not dirty when translate was called).
NoCall(dirty) ==
    [called |-> FALSE, va |-> 0, access |-> "-", privileged |-> FALSE,
     hit |-> FALSE, clean |-> TRUE, result |-> Ok(0), dirty |-> dirty]

\* A write to a CP15 register or a TLB-invalidate opcode leaves the MMU m2.
MmuConfigure(m2) ==
    /\ mmu' = m2
    /\ xlat' = NoCall(~TlbEmpty(m2) /\ xlat.dirty)
    /\ UNCHANGED <<mem, notMmu>>

\* MCR p15, 0, Rd, c1, c0, 0
MmuWriteControl(value) == MmuConfigure(WriteControl(mmu, value))

\* MCR p15, 0, Rd, c2, c0, 0
MmuWriteTtbr0(value) == MmuConfigure(WriteTtbr0(mmu, value))

\* MCR p15, 0, Rd, c3, c0, 0
MmuWriteDacr(value) == MmuConfigure(WriteDacr(mmu, value))

\* MCR p15, 0, Rd, c8, c7, 0 (also c5 and c6)
MmuInvalidateTlb == MmuConfigure(InvalidateTlb(mmu))

\* Mmu::translate
MmuTranslate(va, access, privileged) ==
    LET t == Translate(mmu, mem, va, access, privileged)
    IN  /\ mmu' = t.mmu
        /\ xlat' = [called |-> TRUE, va |-> va, access |-> access,
                    privileged |-> privileged,
                    hit |-> MmuEnabled(mmu)
                              /\ va - (va % SectionSize) \in DOMAIN mmu.tlb,
                    clean |-> ~xlat.dirty,
                    result |-> t.result,
                    dirty |-> xlat.dirty]
        /\ UNCHANGED <<mem, notMmu>>

\* Memory::write_u32_checked of a translation-table word.
MemWriteWord(addr, word) ==
    /\ MemWord(mem, addr) # word
    /\ mem' = WriteU32(mem, addr, word)
    /\ xlat' = NoCall(xlat.dirty \/ ~TlbEmpty(mmu))
    /\ UNCHANGED <<mmu, notMmu>>

\* The result translate gives for the arguments of the last call when the
\* TLB is empty, under the current control, TTBR0 and DACR.
Walk == Translate(InvalidateTlb(mmu), mem,
                  xlat.va, xlat.access, xlat.privileged).result

\* The address of the descriptor of the last call's section, and the word
\* stored there now.
DescAddr == mmu.ttbr0 + (xlat.va \div SectionSize) * 4
DescNow == ReadU32Checked(mem, DescAddr)

InitMmu ==
    /\ mmu = MmuNew
    /\ mem = <<>>
    /\ xlat = NoCall(FALSE)

(***************************************************************************)
(* Memory bus at byte granularity (src/src/core/memory.rs).  The MMU       *)
(* section above looks at FCRAM through aligned table words only.          *)
(***************************************************************************)

FCRAM_START == 0
VRAM_START == 520093696
VRAM_SIZE == 1048576
IO_START == 269484032
IO_SIZE == 1048576
BIOS_START == 536805376
BIOS_SIZE == 65536
ROM_START == 134217728

\* Memory::map_fixed_segment: one Segment; its data vector is zero-filled
\* and as long as the range.
FixedSegment(kind, start, size, writable) ==
    [kind |-> kind, start |-> start, end_exclusive |-> start + size,
     writable |-> writable]

\* Memory::new: the four fixed segments, sorted by start; data holds the
\* bytes that differ from the zero fill.
MemoryNew ==
    [segments |-> <<FixedSegment("Fcram", FCRAM_START, FCRAM_SIZE, TRUE),
                    FixedSegment("Io", IO_START, IO_SIZE, TRUE),
                    FixedSegment("Vram", VRAM_START, VRAM_SIZE, TRUE),
                    FixedSegment("Bios", BIOS_START, BIOS_SIZE, FALSE)>>,
     data |-> <<>>]

\* Segment::contains
SegmentContains(segment, addr) ==
    segment.start <= addr /\ addr < segment.end_exclusive

\* Memory::find_segment_index: the first segment containing addr, 0 for
\* none.
FindSegmentIndex(m, addr) ==
    LET hits == {i \in 1..Len(m.segments) : SegmentContains(m.segments[i], addr)}
    IN  IF hits = {} THEN 0 ELSE CHOOSE i \in hits : \A j \in hits : i <= j

\* Memory::read_u8_checked: Some(byte), or None for MemoryOutOfBounds.
MemoryReadU8Checked(m, addr) ==
    IF FindSegmentIndex(m, addr) = 0 THEN None
    ELSE Some(IF addr \in DOMAIN m.data THEN m.data[addr] ELSE 0)

\* Memory::write_u8_checked: the memory after the call and whether it
\* returned Ok; a write to a segment that is not writable returns Ok and
\* changes nothing.
MemoryWriteU8Checked(m, addr, value) ==
    LET idx == FindSegmentIndex(m, addr)
    IN  IF idx = 0 THEN [memory |-> m, ok |-> FALSE]
        ELSE IF ~m.segments[idx].writable THEN [memory |-> m, ok |-> TRUE]
        ELSE [memory |-> [m EXCEPT !.data = MapPut(@, addr, value)],
              ok |-> TRUE]

\* u32::to_le_bytes: byte k (0..3) of a word.
LeByte(value, k) == (value \div (256 ^ k)) % 256

\* u32::from_le_bytes
FromLeBytes(b0, b1, b2, b3) == b0 + 256 * b1 + 65536 * b2 + 16777216 * b3

\* Memory::read_u32_checked: four byte reads, the first error returned.
MemoryReadU32Checked(m, addr) ==
    LET b(k) == MemoryReadU8Checked(m, addr + k)
    IN  IF \E k \in 0..3 : b(k).none THEN None
        ELSE Some(FromLeBytes(b(0).value, b(1).value, b(2).value, b(3).value))

\* A plausible slip: the bytes of the word are stored most significant
\* first.
MemoryWriteU32Checked_be(m, addr, value) ==
    LET w0 == MemoryWriteU8Checked(m, addr, LeByte(value, 3))
        w1 == MemoryWriteU8Checked(w0.memory, addr + 1, LeByte(value, 2))
        w2 == MemoryWriteU8Checked(w1.memory, addr + 2, LeByte(value, 1))
        w3 == MemoryWriteU8Checked(w2.memory, addr + 3, LeByte(value, 0))
    IN  IF ~w0.ok THEN w0 ELSE IF ~w1.ok THEN w1 ELSE IF ~w2.ok THEN w2 ELSE w3

\* Memory::write_u32_checked: four byte writes in address order, stopping
\* at the first error (the bytes before it stay written).
MemoryWriteU32Checked(m, addr, value) ==
    LET w0 == MemoryWriteU8Checked(m, addr, LeByte(value, 0))
        w1 == MemoryWriteU8Checked(w0.memory, addr + 1, LeByte(value, 1))
        w2 == MemoryWriteU8Checked(w1.memory, addr + 2, LeByte(value, 2))
        w3 == MemoryWriteU8Checked(w2.memory, addr + 3, LeByte(value, 3))
    IN  IF ~w0.ok THEN w0 ELSE IF ~w1.ok THEN w1 ELSE IF ~w2.ok THEN w2 ELSE w3

MaxWrites == 3

\* The history of the writes: how many were made, and for each address the
\* byte of the most recent write that covered it and returned Ok.
MemGhostNew == [writes |-> 0, last |-> <<>>]

\* No read was made since the last write.
NoRead == [kind |-> "-", addr |-> 0, result |-> None]

\* The addresses the segments of Memory::new map.
Mapped(addr) ==
    \/ FCRAM_START <= addr /\ addr < FCRAM_START + FCRAM_SIZE
    \/ IO_START <= addr /\ addr < IO_START + IO_SIZE
    \/ VRAM_START <= addr /\ addr < VRAM_START + VRAM_SIZE
    \/ BIOS_START <= addr /\ addr < BIOS_START + BIOS_SIZE

\* Memory::write_u8_checked(addr, value)
MemWriteU8(addr, value) ==
    /\ memGhost.writes < MaxWrites
    /\ ram' = MemoryWriteU8Checked(ram, addr, value).memory
    /\ memGhost' = [writes |-> memGhost.writes + 1,
                    last |-> IF Mapped(addr)
                             THEN MapPut(memGhost.last, addr, value)
                             ELSE memGhost.last]
    /\ memRead' = NoRead
    /\ UNCHANGED notMem

\* Memory::write_u32_checked(addr, value): the bytes up to the first
\* address outside every segment were written.
MemWriteU32(addr, value) ==
    /\ memGhost.writes < MaxWrites
    /\ ram' = MemoryWriteU32Checked(ram, addr, value).memory
    /\ LET covered == {k \in 0..3 : \A j \in 0..k : Mapped(addr + j)}
       IN  memGhost' =
               [writes |-> memGhost.writes + 1,
                last |-> [a \in DOMAIN memGhost.last
                                   \cup {addr + k : k \in covered} |->
                             IF a - addr \in covered
                             THEN LeByte(value, a - addr)
                             ELSE memGhost.last[a]]]
    /\ memRead' = NoRead
    /\ UNCHANGED notMem

\* Memory::read_u8_checked(addr)
MemReadU8(addr) ==
    /\ memRead' = [kind |-> "u8", addr |-> addr,
                   result |-> MemoryReadU8Checked(ram, addr)]
    /\ UNCHANGED <<ram, memGhost, notMem>>

\* Memory::read_u32_checked(addr)
MemReadU32(addr) ==
    /\ memRead' = [kind |-> "u32", addr |-> addr,
                   result |-> MemoryReadU32Checked(ram, addr)]
    /\ UNCHANGED <<ram, memGhost, notMem>>

InitMem ==
    /\ ram = MemoryNew
    /\ memGhost = MemGhostNew
    /\ memRead = NoRead

(***************************************************************************)
(* IPC wire format (src/src/core/ipc.rs): encoding next to the parser of   *)
(* the kernel section.  A u32 at or above 2^31 is held as its two's        *)
(* complement, so that \div and % by powers of two give the bit fields.    *)
(***************************************************************************)

\* The u32 with high half hi16 and low half lo16.
U32(hi16, lo16) ==
    IF hi16 >= 32768 THEN (hi16 - 65536) * 65536 + lo16
    ELSE hi16 * 65536 + lo16

\* IpcDescriptor::CopyHandle / MoveHandle / StaticBuffer, tagged with the
\* kind nibble of the wire format.
CopyHandle(handle) ==
    [kind |-> 8, handle |-> handle, index |-> 0, address |-> 0, size |-> 0]
MoveHandle(handle) ==
    [kind |-> 9, handle |-> handle, index |-> 0, address |-> 0, size |-> 0]
StaticBuffer(index, address, size) ==
    [kind |-> 10, handle |-> 0, index |-> index, address |-> address,
     size |-> size]

\* CommandHeader::encode: command_id | normal_words << 16
\* | translate_words << 26, bits shifted past bit 31 dropped.
CommandHeaderEncode(command_id, normal_words, translate_words) ==
    U32((normal_words + 1024 * translate_words) % 65536, command_id)

\* The translate words IpcMessage::into_words counts for a descriptor.
TranslateWordsOf(descriptor) == IF descriptor.kind = 10 THEN 2 ELSE 1

\* The words IpcMessage::into_words pushes for a descriptor.
DescriptorWords(descriptor) ==
    IF descriptor.kind = 10
    THEN <<U32(40960 + 256 * (descriptor.index % 16)
                   + (descriptor.size % 16777216) \div 65536,
               descriptor.size % 65536),
           descriptor.address>>
    ELSE <<U32(4096 * descriptor.kind
                   + (descriptor.handle % 268435456) \div 65536,
               descriptor.handle % 65536)>>

RECURSIVE SumTranslateWords(_)
SumTranslateWords(descriptors) ==
    IF descriptors = <<>> THEN 0
    ELSE TranslateWordsOf(Head(descriptors))
             + SumTranslateWords(Tail(descriptors))

RECURSIVE AllDescriptorWords(_)
AllDescriptorWords(descriptors) ==
    IF descriptors = <<>> THEN <<>>
    ELSE DescriptorWords(Head(descriptors))
             \o AllDescriptorWords(Tail(descriptors))

\* A plausible slip: every descriptor is counted as one translate word.
IpcMessageIntoWords_count(msg) ==
    <<CommandHeaderEncode(msg.command_id, Len(msg.normal_words) % 65536,
                          Len(msg.descriptors) % 256)>>
        \o msg.normal_words \o AllDescriptorWords(msg.descriptors)

\* IpcMessage::into_words
IpcMessageIntoWords(msg) ==
    <<CommandHeaderEncode(msg.command_id, Len(msg.normal_words) % 65536,
                          SumTranslateWords(msg.descriptors) % 256)>>
        \o msg.normal_words \o AllDescriptorWords(msg.descriptors)

MaxNormalWords == 2
MaxDescriptors == 2

\* Sequences over a set of at most n elements.
SeqsUpTo(S, n) == UNION {[1..k -> S] : k \in 0..n}

\* Field values at both ends of their bit widths.
CommandIdInputs == {0, 34, 65535}
NormalWordInputs == {0, -559038737, -2147483580}
DescriptorValueInputs ==
    {CopyHandle(0), CopyHandle(268435455), MoveHandle(69),
     StaticBuffer(15, -1, 16777215), StaticBuffer(3, 305397760, 256)}

\* The longest message the header can describe: 1023 normal words and 63
\* translate words (31 static buffers and a handle).
LongestMessage ==
    [command_id |-> 65535,
     normal_words |-> [k \in 1..1023 |-> k],
     descriptors |-> [k \in 1..32 |->
                         IF k = 32 THEN MoveHandle(k)
                         ELSE StaticBuffer(k % 16, k, k)]]

\* Valid messages offered to the codec.
MessageInputs ==
    {[command_id |-> c, normal_words |-> n, descriptors |-> d] :
        c \in CommandIdInputs,
        n \in SeqsUpTo(NormalWordInputs, MaxNormalWords),
        d \in SeqsUpTo(DescriptorValueInputs, MaxDescriptors)}
        \cup {LongestMessage}

\* The codec's run on one message: encoded to words, then parsed back.
CodecNew(msg) == [stage |-> "message", msg |-> msg, words |-> <<>>,
                  parsed |-> None]

\* IpcMessage::into_words on the message.
CodecIntoWords ==
    /\ codec.stage = "message"
    /\ codec' = [codec EXCEPT !.stage = "words",
                              !.words = IpcMessageIntoWords(codec.msg)]
    /\ UNCHANGED notCodec

\* IpcMessage::parse on the encoded words.
CodecParse ==
    /\ codec.stage = "words"
    /\ codec' = [codec EXCEPT !.stage = "parsed",
                              !.parsed = IpcMessageParse(codec.words)]
    /\ UNCHANGED notCodec

InitCodec == codec = CodecNew(DefaultMessage)

(***************************************************************************)
(* Interrupt controller (src/src/core/irq.rs)                              *)
(***************************************************************************)

\* enum IrqLine: the discriminant is the bit position of the line.
Timer0 == 0
VBlankLine == 1
Dma0 == 2
IrqLines == {Timer0, VBlankLine, Dma0}

\* Bit k of a u32 held as a 32-bit two's-complement integer.
BitOf(word, k) == IF k = 31 THEN (IF word < 0 THEN 1 ELSE 0)
                  ELSE (word \div (2 ^ k)) % 2

\* The u32 whose bit k is f[k].
RECURSIVE LowBits(_, _)
LowBits(f, k) == IF k < 0 THEN 0 ELSE f[k] * (2 ^ k) + LowBits(f, k - 1)
WordOfBits(f) == IF f[31] = 1 THEN (LowBits(f, 30) - 2147483647) - 1
                 ELSE LowBits(f, 30)

\* a & b, a | b and a & !b on u32.
BitAnd(a, b) == WordOfBits([k \in 0..31 |-> BitOf(a, k) * BitOf(b, k)])
BitOr(a, b) ==
    WordOfBits([k \in 0..31 |-> IF BitOf(a, k) + BitOf(b, k) > 0 THEN 1 ELSE 0])
BitAndNot(a, b) == WordOfBits([k \in 0..31 |-> BitOf(a, k) * (1 - BitOf(b, k))])

\* IrqLine::bit
LineBit(line) == 2 ^ line

\* u32::MAX
U32_MAX == -1

\* IrqController::new
IrqNew == [enabled |-> U32_MAX, pending |-> 0]

\* IrqController::reset: the pending word is cleared, the mask is kept.
IrqReset(c) == [c EXCEPT !.pending = 0]

\* IrqController::set_enabled_mask
IrqSetEnabledMask(c, mask) == [c EXCEPT !.enabled = mask]

\* IrqController::raise
IrqRaise(c, line) == [c EXCEPT !.pending = BitOr(c.pending, LineBit(line))]

\* IrqController::clear
IrqClear(c, line) == [c EXCEPT !.pending = BitAndNot(c.pending, LineBit(line))]

\* A plausible slip: the enabled mask is not applied.
NextPending_unmasked(c) ==
    Bind(c.pending, LAMBDA active :
        IF BitAnd(active, LineBit(Timer0)) # 0 THEN Some(Timer0)
        ELSE IF BitAnd(active, LineBit(VBlankLine)) # 0 THEN Some(VBlankLine)
        ELSE IF BitAnd(active, LineBit(Dma0)) # 0 THEN Some(Dma0)
        ELSE None)

\* IrqController::next_pending
NextPending(c) ==
    Bind(BitAnd(c.pending, c.enabled), LAMBDA active :
        IF BitAnd(active, LineBit(Timer0)) # 0 THEN Some(Timer0)
        ELSE IF BitAnd(active, LineBit(VBlankLine)) # 0 THEN Some(VBlankLine)
        ELSE IF BitAnd(active, LineBit(Dma0)) # 0 THEN Some(Dma0)
        ELSE None)

\* The controller with its history: the lines raised and not cleared since,
\* the last operation, and the result of next_pending when that was it.
IrqStateNew ==
    [ctl |-> IrqNew, raised |-> {}, op |-> "new", polled |-> None]

IrqDo(ctl2, raised2, op, polled) ==
    /\ irq' = [ctl |-> ctl2, raised |-> raised2, op |-> op, polled |-> polled]
    /\ UNCHANGED notIrq

IrqCtlReset == IrqDo(IrqReset(irq.ctl), {}, "reset", None)
IrqCtlSetEnabledMask(mask) ==
    IrqDo(IrqSetEnabledMask(irq.ctl, mask), irq.raised, "set_enabled_mask", None)
IrqCtlRaise(line) ==
    IrqDo(IrqRaise(irq.ctl, line), irq.raised \cup {line}, "raise", None)
IrqCtlClear(line) ==
    IrqDo(IrqClear(irq.ctl, line), irq.raised \ {line}, "clear", None)
IrqCtlNextPending ==
    IrqDo(irq.ctl, irq.raised, "next_pending", NextPending(irq.ctl))

InitIrq == irq = IrqStateNew

(***************************************************************************)
(* Timing model (src/src/core/timing.rs)                                   *)
(***************************************************************************)

CPU_HZ == 268000000
AUDIO_HZ == 48000
VIDEO_HZ == 60
SCANLINES_TOTAL == 262
SCANLINES_ACTIVE == 240
BOTTOM_SCANLINE_OFFSET == 2

\* Cap on the number of tick calls since reset.
MaxTicks == 130
\* Largest cycle count offered to one tick; the phase sums stay far below
\* the saturation point of the u64 accumulators.
MaxTickCycles == 35000

\* TimingModel::default
TimingNew ==
    [cpu_cycles |-> 0,
     audio_samples_due |-> 0,
     video_frames_due |-> 0,
     audio_phase |-> 0,
     video_phase |-> 0,
     top_vblank_count |-> 0,
     bottom_vblank_count |-> 0,
     wall_time_anchor_us |-> 0,
     drift_policy |-> [max_frame_lead_us |-> 2000, max_frame_lag_us |-> 8000]]

\* TimingModel::screen_snapshot_at: whether the screen is in v-blank.
InVblank(cpu_cycles, screen) ==
    LET frame_cycles == CPU_HZ \div VIDEO_HZ
        line_cycles == IF frame_cycles \div SCANLINES_TOTAL > 1
                       THEN frame_cycles \div SCANLINES_TOTAL ELSE 1
        in_frame == cpu_cycles % frame_cycles
        cycle_in_frame ==
            IF screen = "Bottom"
            THEN (in_frame + BOTTOM_SCANLINE_OFFSET * line_cycles) % frame_cycles
            ELSE in_frame
        scanline == cycle_in_frame \div line_cycles
    IN  scanline >= SCANLINES_ACTIVE

\* A plausible slip: the audio phase is cleared, not reduced, when samples
\* are produced.
TimingTick_dropphase(t, cycles) ==
    LET audio_sum == t.audio_phase + cycles * AUDIO_HZ
        video_sum == t.video_phase + cycles * VIDEO_HZ
    IN  [t EXCEPT !.cpu_cycles = t.cpu_cycles + cycles,
                  !.audio_phase = IF audio_sum < CPU_HZ THEN audio_sum ELSE 0,
                  !.audio_samples_due = @ + audio_sum \div CPU_HZ,
                  !.video_phase = video_sum % CPU_HZ,
                  !.video_frames_due = @ + video_sum \div CPU_HZ]

\* TimingModel::tick: the state after the call.
TimingTick(t, cycles) ==
    LET next_cycles == t.cpu_cycles + cycles
        audio_sum == t.audio_phase + cycles * AUDIO_HZ
        video_sum == t.video_phase + cycles * VIDEO_HZ
        Edge(screen) == IF ~InVblank(t.cpu_cycles, screen)
                           /\ InVblank(next_cycles, screen) THEN 1 ELSE 0
    IN  [cpu_cycles |-> next_cycles,
         audio_phase |-> audio_sum % CPU_HZ,
         audio_samples_due |-> t.audio_samples_due + audio_sum \div CPU_HZ,
         video_phase |-> video_sum % CPU_HZ,
         video_frames_due |-> t.video_frames_due + video_sum \div CPU_HZ,
         top_vblank_count |-> t.top_vblank_count + Edge("Top"),
         bottom_vblank_count |-> t.bottom_vblank_count + Edge("Bottom"),
         wall_time_anchor_us |-> t.wall_time_anchor_us,
         drift_policy |-> t.drift_policy]

\* TimingModel::emulated_time_us is cpu_cycles.saturating_mul(1_000_000) /
\* CPU_HZ.  CPU_HZ is 268 times 1_000_000, so below the saturation point
\* (cpu_cycles < 2^64 / 10^6) the quotient is cpu_cycles / 268.
EmulatedTimeUs(t) == t.cpu_cycles \div (CPU_HZ \div 1000000)

\* u64::saturating_sub
SaturatingSub(a, b) == IF a > b THEN a - b ELSE 0

\* u32::saturating_add stops at 2^32 - 1; the requests offered here are
\* below 2^30, so their sums are far below it.
SaturatingAddU32(a, b) == a + b

\* TimingModel::recommended_cycle_budget
RecommendedCycleBudget(t, host_wall_time_us, requested_cycles) ==
    LET clamped_host_us == SaturatingSub(host_wall_time_us,
                                         t.wall_time_anchor_us)
        emu_us == EmulatedTimeUs(t)
        host_us == clamped_host_us
        drift == emu_us - host_us
    IN  IF drift > t.drift_policy.max_frame_lead_us
        THEN (IF requested_cycles \div 2 > 1 THEN requested_cycles \div 2
              ELSE 1)
        ELSE IF drift < -t.drift_policy.max_frame_lag_us
        THEN SaturatingAddU32(requested_cycles, requested_cycles \div 2)
        ELSE requested_cycles

\* The model with its history: the number of ticks and the sum of their
\* cycle counts since reset, and the recommended_cycle_budget call made
\* last, if no other call followed it.
TimingStateNew ==
    [model |-> TimingNew, ticks |-> 0, total |-> 0, budget |-> None]

\* TimingModel::tick(cycles)
TimingDoTick(cycles) ==
    /\ timing.ticks < MaxTicks
    /\ timing' = [model |-> TimingTick(timing.model, cycles),
                  ticks |-> timing.ticks + 1,
                  total |-> timing.total + cycles,
                  budget |-> None]
    /\ UNCHANGED notTiming

\* TimingModel::reset
TimingDoReset ==
    /\ timing.ticks > 0
    /\ timing' = TimingStateNew
    /\ UNCHANGED notTiming

\* TimingModel::set_drift_policy
TimingSetDriftPolicy(lead, lag) ==
    /\ timing' = [timing EXCEPT
                     !.model.drift_policy = [max_frame_lead_us |-> lead,
                                             max_frame_lag_us |-> lag],
                     !.budget = None]
    /\ UNCHANGED notTiming

\* TimingModel::set_wall_time_anchor_us
TimingSetWallTimeAnchorUs(host_wall_time_us) ==
    /\ timing' = [timing EXCEPT
                     !.model.wall_time_anchor_us = host_wall_time_us,
                     !.budget = None]
    /\ UNCHANGED notTiming

\* TimingModel::recommended_cycle_budget(host_wall_time_us, requested)
TimingRecommendedCycleBudget(host_wall_time_us, requested_cycles) ==
    /\ timing' = [timing EXCEPT !.budget =
           Some([now |-> host_wall_time_us,
                 requested |-> requested_cycles,
                 result |-> RecommendedCycleBudget(timing.model,
                                                   host_wall_time_us,
                                                   requested_cycles)])]
    /\ UNCHANGED notTiming

InitTiming == timing = TimingStateNew

(***************************************************************************)
(* PICA GPU (src/src/core/pica.rs)                                         *)
(***************************************************************************)

REG_VIEWPORT_XY == 65
REG_VIEWPORT_WH == 66
REG_SCISSOR_XY == 67
REG_SCISSOR_WH == 68
REG_ATTRIB_BASE == 256
REG_INDEX_FORMAT == 272
REG_VERTEX_FORMAT == 273
REG_DEPTH_STENCIL == 288
REG_BLEND_EQ == 304
REG_TEXTURE_SIZE == 321
REG_TEXTURE_FORMAT == 322
REG_TEV_STAGE0 == 336
REG_FRAMEBUFFER_FORMAT == 352
REG_COLOR_CLEAR == 512
REG_DRAW_BASE_VERTEX == 516
REG_DRAW_VERTEX_COUNT == 517
REG_DRAW_TRIGGER == 518
REG_SHADER_CODE == 768
REG_SHADER_CONST == 769

\* PicaGpu::WIDTH and PicaGpu::HEIGHT are 400 and 240; the frame and depth
\* buffers are scaled down here.  The default viewport and scissor keep
\* their 400 x 240.
GpuWidth == 3
GpuHeight == 2

\* a ^ b on u32.
BitXor(a, b) == WordOfBits([k \in 0..31 |-> (BitOf(a, k) + BitOf(b, k)) % 2])

\* u32::from_le_bytes, as a 32-bit two's-complement integer.
WordLe(b0, b1, b2, b3) ==
    b0 + 256 * b1 + 65536 * b2
        + 16777216 * (IF b3 >= 128 THEN b3 - 256 ELSE b3)

\* `x as u16` and `(x >> 16) as u16` of a u32.
LowHalf(x) == x % 65536

HighHalf(x) == (x \div 65536) % 65536

Min(a, b) == IF a < b THEN a ELSE b

Max(a, b) == IF a > b THEN a ELSE b

\* PicaCommandBufferPacket::decode
PacketDecode(word) ==
    [reg |-> word % 65536,
     count |-> (word \div 65536) % 128,
     sequential |-> (word \div 8388608) % 2 # 0]

\* PicaCommandBufferPacket::encode
PacketEncode(reg, count, sequential) ==
    BitOr(BitOr(reg, count * 65536), IF sequential THEN 8388608 ELSE 0)

\* PicaCommandProcessor::decode_command_words from the (1-based) cursor on:
\* the writes of the packet at the cursor, cut short where the words end,
\* then the following packets.
RECURSIVE DecodeFrom(_, _)
DecodeFrom(words, cursor) ==
    IF cursor > Len(words) THEN <<>>
    ELSE LET packet == PacketDecode(words[cursor])
             payload_words == Max(packet.count, 1)
             present == Min(payload_words, Len(words) - cursor)
             out == [i \in 1..present |->
                        [reg |-> IF packet.sequential
                                 THEN (packet.reg + (i - 1)) % 65536
                                 ELSE packet.reg,
                         value |-> words[cursor + i]]]
         IN  IF present < payload_words THEN out
             ELSE out \o DecodeFrom(words, cursor + 1 + payload_words)

DecodeCommandWords(words) == DecodeFrom(words, 1)

\* PicaGpu::new.  presents is left out: nothing here calls present.
PicaGpuNew ==
    [frame_buffer |-> [i \in 1..(GpuWidth * GpuHeight) |-> WordLe(0, 0, 0, 255)],
     depth_buffer |-> [i \in 1..(GpuWidth * GpuHeight) |-> 65535],
     register_file |-> <<>>,
     fifo |-> <<>>,
     attribute_mask |-> 0,
     index_format |-> "U16",
     vertex_fetch |-> [stride_words |-> 3, color_offset_words |-> 1,
                       texcoord_offset_words |-> 2],
     viewport |-> [x |-> 0, y |-> 0, w |-> 400, h |-> 240],
     scissor |-> [x |-> 0, y |-> 0, w |-> 400, h |-> 240],
     depth_stencil |-> [depth_test_enable |-> FALSE,
                        depth_write_enable |-> FALSE,
                        stencil_enable |-> FALSE],
     blend |-> [equation_rgb |-> 0, equation_alpha |-> 0],
     texture_format |-> "Rgba8",
     framebuffer_format |-> "Rgba8",
     texture_size |-> <<1, 1>>,
     texture_data |-> <<255, 255, 255, 255>>,
     shader_microcode |-> <<>>,
     shader_constant |-> 0,
     translated_shader |-> <<>>,
     tev_stage0 |-> 0,
     vertex_stream |-> <<>>,
     index_stream |-> <<>>,
     draw_base_vertex |-> 0,
     draw_vertex_count |-> 0,
     trace |-> <<>>,
     events |-> <<>>]

\* PicaGpu::load_vertex_stream
LoadVertexStream(g, words) == [g EXCEPT !.vertex_stream = words]

\* PicaGpu::load_index_stream_u16
LoadIndexStreamU16(g, indices) == [g EXCEPT !.index_stream = indices]

\* PicaGpu::load_texture_rgba8
LoadTextureRgba8(g, width, height, texels) ==
    [g EXCEPT !.texture_size = <<Max(width, 1), Max(height, 1)>>,
              !.texture_data = texels,
              !.texture_format = "Rgba8"]

\* PicaGpu::enqueue_gsp_fifo_words
EnqueueGspFifoWords(g, words) == [g EXCEPT !.fifo = @ \o words]

\* PicaGpu::enqueue_register_write
EnqueueRegisterWrite(g, reg, value) ==
    EnqueueGspFifoWords(g, <<PacketEncode(reg, 1, FALSE), value>>)

\* PicaGpu::translate_shader_microcode
TranslateShaderMicrocode(g) ==
    [i \in 1..Len(g.shader_microcode) |->
        IF g.shader_microcode[i] % 2 = 0 THEN "XorConst" ELSE "RotateChannels"]

\* One ShaderOp of run_shader_pipeline: [a, r, g, b] (big-endian bytes)
\* becomes [a, b, r, g].
ShaderApply(g, op, acc) ==
    IF op = "XorConst" THEN BitXor(acc, g.shader_constant)
    ELSE WordLe(LeByte(acc, 1), LeByte(acc, 2), LeByte(acc, 0), LeByte(acc, 3))

\* PicaGpu::run_shader_pipeline from op i on.
RECURSIVE ShaderFrom(_, _, _)
ShaderFrom(g, color, i) ==
    IF i > Len(g.translated_shader) THEN color
    ELSE ShaderFrom(g, ShaderApply(g, g.translated_shader[i], color), i + 1)

RunShaderPipeline(g, color) == ShaderFrom(g, color, 1)

\* PicaGpu::convert_framebuffer_format
ConvertFramebufferFormat(g, rgba) ==
    IF g.framebuffer_format = "Rgba8" THEN rgba
    ELSE LET raw == (LeByte(rgba, 0) \div 8) * 2048
                        + (LeByte(rgba, 1) \div 4) * 32
                        + (LeByte(rgba, 2) \div 8)
             r8 == (raw \div 2048) % 32
             g8 == (raw \div 32) % 64
             b8 == raw % 32
         IN  WordLe(r8 * 8, g8 * 4, b8 * 8, 255)

\* PicaGpu::clear_color
ClearColor(g, color) ==
    LET resolved == ConvertFramebufferFormat(g, RunShaderPipeline(g, color))
    IN  [g EXCEPT !.frame_buffer = [i \in DOMAIN @ |-> resolved],
                  !.depth_buffer = [i \in DOMAIN @ |-> 65535]]

\* PicaGpu::sample_texture; texture_data is indexed from 0 in the code.
SampleTexture(g, texcoord_word) ==
    LET tx == LowHalf(texcoord_word)
        ty == HighHalf(texcoord_word)
        w == Max(g.texture_size[1], 1)
        h == Max(g.texture_size[2], 1)
        x == tx % w
        y == ty % h
        data(i) == g.texture_data[i + 1]
    IN  IF g.texture_format = "Rgba8"
        THEN LET idx == (y * w + x) * 4
             IN  IF idx + 3 >= Len(g.texture_data) THEN -1
                 ELSE WordLe(data(idx), data(idx + 1), data(idx + 2),
                             data(idx + 3))
        ELSE LET idx == (y * w + x) * 2
             IN  IF idx + 1 >= Len(g.texture_data) THEN -1
                 ELSE LET raw == data(idx) + 256 * data(idx + 1)
                          r == (raw \div 2048) % 32
                          gr == (raw \div 32) % 64
                          b == raw % 32
                      IN  WordLe(r * 8, gr * 4, b * 8, 255)

\* PicaGpu::combine_color
CombineColor(g, a, b) ==
    IF g.tev_stage0 % 2 = 0 THEN a
    ELSE WordLe(Min(LeByte(a, 0) + LeByte(b, 0), 255),
                Min(LeByte(a, 1) + LeByte(b, 1), 255),
                Min(LeByte(a, 2) + LeByte(b, 2), 255),
                LeByte(a, 3))

\* PicaGpu::blend_color
BlendColor(g, dst, src) ==
    IF g.blend.equation_rgb = 0 THEN src
    ELSE WordLe((LeByte(dst, 0) + LeByte(src, 0)) \div 2,
                (LeByte(dst, 1) + LeByte(src, 1)) \div 2,
                (LeByte(dst, 2) + LeByte(src, 2)) \div 2,
                LeByte(src, 3))

\* PicaGpu::point_in_rect; u16::saturating_add stops at 65535.
PointInRect(x, y, rect) ==
    /\ x >= rect.x
    /\ y >= rect.y
    /\ x < Min(rect.x + rect.w, 65535)
    /\ y < Min(rect.y + rect.h, 65535)

\* PicaGpu::rasterize_triangle for one vertex index v; vertex_stream is
\* indexed from 0 in the code.
RasterizeVertex(g, v) ==
    LET stride == Max(g.vertex_fetch.stride_words, 1)
        pos == v * stride
        stream(i) == g.vertex_stream[i + 1]
        get(i, default) == IF i < Len(g.vertex_stream) THEN stream(i)
                           ELSE default
    IN  IF pos >= Len(g.vertex_stream) THEN g
        ELSE
        LET xy == stream(pos)
            x == LowHalf(xy)
            y == HighHalf(xy)
        IN  IF ~PointInRect(x, y, g.viewport) \/ ~PointInRect(x, y, g.scissor)
            THEN g
            ELSE
            LET color_word == get(pos + g.vertex_fetch.color_offset_words, -1)
                tex_word == get(pos + g.vertex_fetch.texcoord_offset_words, 0)
                tex_color == SampleTexture(g, tex_word)
                combiner_color == CombineColor(g, color_word, tex_color)
                shaded == ConvertFramebufferFormat(
                              g, RunShaderPipeline(g, combiner_color))
                xi == Min(x, GpuWidth - 1)
                yi == Min(y, GpuHeight - 1)
                idx == yi * GpuWidth + xi + 1
                depth == (xy \div 256) % 65536
            IN  IF g.depth_stencil.depth_test_enable
                   /\ depth > g.depth_buffer[idx]
                THEN g
                ELSE [g EXCEPT
                         !.frame_buffer[idx] = BlendColor(g, @, shaded),
                         !.depth_buffer[idx] =
                             IF g.depth_stencil.depth_write_enable
                             THEN depth ELSE @]

\* PicaGpu::execute_draw_call from triangle offset i on; index_stream is
\* indexed from 0 in the code.
RECURSIVE DrawFrom(_, _, _, _)
DrawFrom(g, base, count, i) ==
    IF i >= count \/ i + 2 >= count THEN g
    ELSE LET index(k) == g.index_stream[base + i + k + 1]
         IN  DrawFrom(RasterizeVertex(
                          RasterizeVertex(RasterizeVertex(g, index(0)),
                                          index(1)),
                          index(2)),
                      base, count, i + 3)

ExecuteDrawCall(g) ==
    LET base == g.draw_base_vertex
        count == Min(g.draw_vertex_count,
                     Max(Len(g.index_stream) - base, 0))
    IN  [DrawFrom(g, base, count, 0) EXCEPT
            !.events = Append(@, "FrameComplete")]

\* A plausible slip: the trace keeps the low half of the value only.
RecordWrite_lowhalf(g, write) ==
    [g EXCEPT !.register_file = MapPut(@, write.reg, write.value),
              !.trace = Append(@, [write EXCEPT !.value = LowHalf(@)])]

\* The head of apply_register_write: the register file and the trace.
RecordWrite(g, write) ==
    [g EXCEPT !.register_file = MapPut(@, write.reg, write.value),
              !.trace = Append(@, write)]

\* PicaGpu::apply_register_write
ApplyRegisterWrite(g, write) ==
    LET reg == write.reg
        value == write.value
        g1 == RecordWrite(g, write)
    IN  CASE reg = REG_VIEWPORT_XY ->
                 [g1 EXCEPT !.viewport.x = LowHalf(value),
                            !.viewport.y = HighHalf(value)]
          [] reg = REG_VIEWPORT_WH ->
                 [g1 EXCEPT !.viewport.w = LowHalf(value),
                            !.viewport.h = HighHalf(value)]
          [] reg = REG_SCISSOR_XY ->
                 [g1 EXCEPT !.scissor.x = LowHalf(value),
                            !.scissor.y = HighHalf(value)]
          [] reg = REG_SCISSOR_WH ->
                 [g1 EXCEPT !.scissor.w = LowHalf(value),
                            !.scissor.h = HighHalf(value)]
          [] reg >= REG_ATTRIB_BASE /\ reg <= 263 ->
                 [g1 EXCEPT !.attribute_mask =
                     IF value % 2 = 1
                     THEN BitOr(@, 2 ^ (reg - REG_ATTRIB_BASE))
                     ELSE BitAndNot(@, 2 ^ (reg - REG_ATTRIB_BASE))]
          [] reg = REG_INDEX_FORMAT ->
                 [g1 EXCEPT !.index_format =
                     IF value % 2 = 0 THEN "U8" ELSE "U16"]
          [] reg = REG_VERTEX_FORMAT ->
                 [g1 EXCEPT !.vertex_fetch =
                     [stride_words |-> LeByte(value, 0),
                      color_offset_words |-> LeByte(value, 1),
                      texcoord_offset_words |-> LeByte(value, 2)]]
          [] reg = REG_DEPTH_STENCIL ->
                 [g1 EXCEPT !.depth_stencil =
                     [depth_test_enable |-> value % 2 # 0,
                      depth_write_enable |-> (value \div 2) % 2 # 0,
                      stencil_enable |-> (value \div 4) % 2 # 0]]
          [] reg = REG_BLEND_EQ ->
                 [g1 EXCEPT !.blend = [equation_rgb |-> LeByte(value, 0),
                                       equation_alpha |-> LeByte(value, 1)]]
          [] reg = REG_TEXTURE_SIZE ->
                 [g1 EXCEPT !.texture_size = <<LowHalf(value), HighHalf(value)>>]
          [] reg = REG_TEXTURE_FORMAT ->
                 [g1 EXCEPT !.texture_format =
                     IF value % 2 = 0 THEN "Rgba8" ELSE "Rgb565"]
          [] reg = REG_TEV_STAGE0 -> [g1 EXCEPT !.tev_stage0 = value]
          [] reg = REG_FRAMEBUFFER_FORMAT ->
                 [g1 EXCEPT !.framebuffer_format =
                     IF value % 2 = 0 THEN "Rgba8" ELSE "Rgb565"]
          [] reg = REG_SHADER_CODE ->
                 [g1 EXCEPT !.shader_microcode = Append(@, value)]
          [] reg = REG_SHADER_CONST ->
                 LET g2 == [g1 EXCEPT !.shader_constant = value]
                 IN  [g2 EXCEPT !.translated_shader =
                                    TranslateShaderMicrocode(g2)]
          [] reg = REG_COLOR_CLEAR -> ClearColor(g1, value)
          [] reg = REG_DRAW_BASE_VERTEX ->
                 [g1 EXCEPT !.draw_base_vertex = LowHalf(value)]
          [] reg = REG_DRAW_VERTEX_COUNT ->
                 [g1 EXCEPT !.draw_vertex_count = LowHalf(value)]
          [] reg = REG_DRAW_TRIGGER ->
                 IF value % 2 # 0 THEN ExecuteDrawCall(g1) ELSE g1
          [] OTHER -> g1

\* The loop of tick over the decoded writes.
RECURSIVE ApplyWrites(_, _)
ApplyWrites(g, writes) ==
    IF writes = <<>> THEN g
    ELSE ApplyWrites(ApplyRegisterWrite(g, Head(writes)), Tail(writes))

\* PicaGpu::tick
Tick(g) ==
    IF g.fifo = <<>> THEN g
    ELSE ApplyWrites([g EXCEPT !.fifo = <<>>], DecodeCommandWords(g.fifo))

\* PicaGpu::deterministic_render_hash keeps hash = (hash ^ px) * prime in
\* u64, from the offset basis 0xcbf29ce484222325 with the prime
\* 0x100000001B3.  Bits 0..14 of a xor and of a wrapping product depend on
\* bits 0..14 of the operands only, so bits 0..14 of the hash are this fold
\* over bits 0..14 of the pixels, basis and prime.
HashStep(hash, px) == (BitXor(hash, px % 32768) * 435) % 32768

RECURSIVE HashFrom(_, _, _)
HashFrom(frame_buffer, hash, i) ==
    IF i > Len(frame_buffer) THEN hash
    ELSE HashFrom(frame_buffer, HashStep(hash, frame_buffer[i]), i + 1)

DeterministicRenderHash(g) == HashFrom(g.frame_buffer, 8997, 1)

\* A GPU with its history: the load calls made before the first register
\* write was applied, whether a load was made after it, and the number of
\* enqueue calls.
GpuStateNew ==
    [g |-> PicaGpuNew, loads |-> <<>>, late_load |-> FALSE, enqueued |-> 0]

\* Load calls on one GPU.
MaxLoads == 3

GpuDoLoad(call, after) ==
    /\ Len(gpu.loads) < MaxLoads
    /\ gpu' = [gpu EXCEPT
                  !.g = after,
                  !.loads = IF gpu.g.trace = <<>> THEN Append(@, call) ELSE @,
                  !.late_load = @ \/ gpu.g.trace # <<>>]
    /\ UNCHANGED notGpu

GpuLoadVertexStream(words) ==
    GpuDoLoad([op |-> "vertex", words |-> words],
              LoadVertexStream(gpu.g, words))

GpuLoadIndexStreamU16(indices) ==
    GpuDoLoad([op |-> "index", indices |-> indices],
              LoadIndexStreamU16(gpu.g, indices))

GpuLoadTextureRgba8(width, height, texels) ==
    GpuDoLoad([op |-> "texture", width |-> width, height |-> height,
               texels |-> texels],
              LoadTextureRgba8(gpu.g, width, height, texels))

\* Enqueue calls on one GPU.
MaxChunks == 3

GpuEnqueueGspFifoWords(words) ==
    /\ gpu.enqueued < MaxChunks
    /\ gpu' = [gpu EXCEPT !.g = EnqueueGspFifoWords(@, words),
                          !.enqueued = @ + 1]
    /\ UNCHANGED notGpu

GpuTick ==
    /\ gpu' = [gpu EXCEPT !.g = Tick(@)]
    /\ UNCHANGED notGpu

InitGpu == gpu = GpuStateNew

(***************************************************************************)
(* Emulator run loop (src/src/core/emulator.rs, dma.rs, cpu.rs)            *)
(***************************************************************************)

\* Cycles from a timer expiry to the next and from a v-blank to the next;
\* 16 and 4,000,000 in emulator.rs, scaled down so that both events recur
\* within the runs explored.
TimerPeriod == 2
VBlankPeriod == 3
\* Cap on the transfers in flight in the DMA engine.
MaxInFlight == 2
\* Cap on the entries of the fault ring that are followed (the ring holds
\* 128); failing requests and faulting instructions are offered below it.
MaxFaults == 1

\* cpu.rs FaultKind, the kinds an address translation yields.
MmuFaultKinds == {"Translation", "Domain", "Permission"}

\* Arm11Cpu as the run loop reads it: the run state, the CPSR I bit, whether
\* the mode is privileged, the last exception (kind and fault_opcode; for
\* an interrupt the opcode field carries the line) and the last MMU fault.
\* Arm11Cpu::reset.
RunCpuReset ==
    [state |-> "Running", i |-> FALSE, privileged |-> FALSE,
     last_exception |-> None, last_mmu_fault |-> None]

\* A plausible slip: the I bit is not looked at.
InterruptsEnabled_always(c) == TRUE

\* Arm11Cpu::interrupts_enabled
InterruptsEnabled(c) == ~c.i

\* Arm11Cpu::take_exception: every kind enters a privileged mode with the I
\* bit set and is recorded as the last exception.
RunTakeException(c, kind, fault_opcode) ==
    [c EXCEPT !.i = TRUE,
              !.privileged = TRUE,
              !.last_exception = Some([kind |-> kind,
                                       fault_opcode |-> fault_opcode])]

\* Arm11Cpu::enter_irq: a halted CPU resumes, then takes the interrupt.
EnterIrq(c, line) ==
    RunTakeException([c EXCEPT !.state = "Running"], "Interrupt", line)

\* Arm11Cpu::step on the instruction at PC, given by what it decodes to:
\* the CPU after the step and the cycles consumed.  The last MMU fault is
\* cleared first; a halted CPU consumes one cycle and decodes nothing.
RunCpuStep(c, instr) ==
    LET c0 == [c EXCEPT !.last_mmu_fault = None]
        Faulted(access) ==
            [c0 EXCEPT !.last_mmu_fault =
                           Some([kind |-> instr.kind, access |-> access])]
    IN  IF c.state = "Halted" THEN [cpu |-> c0, consumed |-> 1]
        ELSE CASE instr.op = "plain" -> [cpu |-> c0, consumed |-> 1]
               [] instr.op = "wfi" ->
                      [cpu |-> [c0 EXCEPT !.state = "Halted"], consumed |-> 1]
               [] instr.op = "swi" ->
                      [cpu |-> RunTakeException(c0, "SoftwareInterrupt",
                                                instr.imm24),
                       consumed |-> 3]
               [] instr.op = "undefined" ->
                      [cpu |-> RunTakeException(c0, "UndefinedInstruction", 0),
                       consumed |-> 3]
               [] instr.op = "prefetch_abort" ->
                      [cpu |-> RunTakeException(Faulted("Execute"),
                                                "PrefetchAbort", 0),
                       consumed |-> 3]
               [] instr.op = "data_abort" ->
                      [cpu |-> RunTakeException(Faulted("Read"),
                                                "DataAbort", 0),
                       consumed |-> 3]
               [] instr.op = "msr" ->
                      [cpu |-> IF c0.privileged
                               THEN [c0 EXCEPT !.i = instr.i,
                                               !.privileged = ~instr.user]
                               ELSE c0,
                       consumed |-> 1]

\* dma.rs DmaTransfer
DmaTransfer(channel, source, destination, words, kind) ==
    [channel |-> channel, source |-> source, destination |-> destination,
     words |-> words, kind |-> kind]

\* Memory::read_u32 and Memory::write_u32, the tolerant accessors.
MemoryReadU32(m, addr) ==
    LET r == MemoryReadU32Checked(m, addr) IN IF r.none THEN 0 ELSE r.value
MemoryWriteU32(m, addr, value) == MemoryWriteU32Checked(m, addr, value).memory

\* The memory-to-memory loop of complete_transfer from word `word` on.
RECURSIVE DmaCopyWords(_, _, _)
DmaCopyWords(m, transfer, word) ==
    IF word >= transfer.words THEN m
    ELSE DmaCopyWords(
             MemoryWriteU32(m, transfer.destination + 4 * word,
                            MemoryReadU32(m, transfer.source + 4 * word)),
             transfer, word + 1)

\* Position of the first transfer in flight on the channel, 0 for none.
FirstOnChannel(in_flight, channel) ==
    LET hits == {i \in 1..Len(in_flight) : in_flight[i].channel = channel}
    IN  IF hits = {} THEN 0 ELSE CHOOSE i \in hits : \A j \in hits : i <= j

\* A plausible slip: the transfer is removed and signalled, its words are
\* not copied.
DmaCompleteTransfer_nocopy(in_flight, channel, m) ==
    LET idx == FirstOnChannel(in_flight, channel)
    IN  IF idx = 0 THEN [in_flight |-> in_flight, memory |-> m, done |-> FALSE]
        ELSE [in_flight |-> SubSeq(in_flight, 1, idx - 1)
                                \o SubSeq(in_flight, idx + 1, Len(in_flight)),
              memory |-> m,
              done |-> TRUE]

\* DmaEngine::complete_transfer: the engine and the memory after the call
\* and the value returned.  A GPU queue feed leaves the memory alone.
DmaCompleteTransfer(in_flight, channel, m) ==
    LET idx == FirstOnChannel(in_flight, channel)
    IN  IF idx = 0 THEN [in_flight |-> in_flight, memory |-> m, done |-> FALSE]
        ELSE [in_flight |-> SubSeq(in_flight, 1, idx - 1)
                                \o SubSeq(in_flight, idx + 1, Len(in_flight)),
              memory |-> IF in_flight[idx].kind = "MemoryToMemory"
                         THEN DmaCopyWords(m, in_flight[idx], 0)
                         ELSE m,
              done |-> TRUE]

\* The GPU-queue-feed loop of complete_transfer from word `word` on: the
\* words read from memory for the GPU FIFO.
RECURSIVE DmaReadWords(_, _, _)
DmaReadWords(m, transfer, word) ==
    IF word >= transfer.words THEN <<>>
    ELSE <<MemoryReadU32(m, transfer.source + 4 * word)>>
             \o DmaReadWords(m, transfer, word + 1)

\* History: for each transfer in flight, in the order of the engine's list,
\* the cycles still to pass until max(words, 1) cycles have passed since it
\* was queued; `n` more cycles have passed.
Elapse(waits, n) ==
    [i \in DOMAIN waits |-> IF waits[i] > n THEN waits[i] - n ELSE 0]

\* DmaEngine::complete_transfer, what it hands to the GPU: the words of the
\* first transfer in flight on the channel when that is a GPU queue feed,
\* nothing otherwise.
DmaFeedWords(in_flight, channel, m) ==
    LET idx == FirstOnChannel(in_flight, channel)
    IN  IF idx # 0 /\ in_flight[idx].kind = "GpuQueueFeed"
        THEN DmaReadWords(m, in_flight[idx], 0)
        ELSE <<>>

\* Entries the fault ring holds (RingBuffer::new(128)).
FaultRingCap == 128

\* RingBuffer::push
RingPush(values, value, cap) ==
    IF cap = 0 THEN values
    ELSE IF Len(values) = cap THEN Append(Tail(values), value)
    ELSE Append(values, value)

\* The value run_cycles returned.
NoResult == [kind |-> "none"]
OkResult(executed) == [kind |-> "Ok", executed |-> executed]
RomNotLoaded == [kind |-> "RomNotLoaded"]
ServiceCallError(dispatch) ==
    [kind |-> "ServiceCallError", service_command_id |-> dispatch[1],
     handle_id |-> dispatch[2], result_code |-> dispatch[3]]
MmuError(fault) ==
    [kind |-> CASE fault.kind = "Translation" -> "MmuTranslationFault"
                [] fault.kind = "Domain" -> "MmuDomainFault"
                [] fault.kind = "Permission" -> "MmuPermissionFault",
     access |-> fault.access]

\* StructuredError values pushed into the fault ring.
ServiceCallFailure(dispatch) ==
    [error |-> "ServiceCallFailure", service_command_id |-> dispatch[1],
     handle_id |-> dispatch[2], result_code |-> dispatch[3]]
MmuFaultSnapshot(fault) == [error |-> "MmuFault", access |-> fault.access]

\* History of the interrupt delivery of a cycle: whether the CPSR I bit
\* was clear at the start of the cycle, the controller at the
\* start, the controller and the exception entered when the CPU step began,
\* and the controller at the end of the cycle.
NoDelivery ==
    [enabled |-> FALSE, before |-> IrqNew, at_step |-> IrqNew,
     entered |-> None, after |-> IrqNew]

\* History of the last cycle run: the MMU fault its CPU step recorded, the
\* exception the cycle entered (interrupt delivery included), the
\* interrupt delivery, and the words the DMA completions of the cycle fed to
\* the GPU FIFO.
NoCycle ==
    [ran |-> FALSE, faulted |-> None, exception |-> None,
     delivery |-> NoDelivery, fed |-> <<>>]
\* History of the last DMA-completion event the last call of run_cycles
\* handled.
NoDma == [handled |-> FALSE]
\* History of the last call of run_cycles: the SWI instructions the CPU
\* executed and the calls of Kernel::handle_swi (each one pushes one entry
\* to the kernel's service-call log).
NoCalls == [swis |-> 0, syscalls |-> 0]

\* Emulator3ds::with_config.  Time is kept relative: scheduler.cycles is
\* brought back to 0 after every call and the fire-at cycles and insertion
\* numbers of the pending events are shifted with it, which changes neither
\* which events are due nor their order.  `unreported` lists the dispatches
\* with a non-ok result code made under run_cycles and not yet returned as
\* an error.
EmulatorNew ==
    [rom_loaded |-> FALSE,
     cpu |-> RunCpuReset,
     irq |-> IrqNew,
     scheduler |-> SchedulerNew,
     dma |-> <<>>,
     dmaWait |-> <<>>,
     gpu |-> PicaGpuNew,
     fault_snapshots |-> <<>>,
     result |-> NoResult,
     cycle |-> NoCycle,
     dmaDone |-> NoDma,
     calls |-> NoCalls,
     load_result |-> "none",
     unreported |-> <<>>]

\* The scheduler with its clock brought back to 0.
Rebase(s) ==
    [cycles |-> 0,
     next_order |-> Len(s.pending),
     pending |-> [i \in 1..Len(s.pending) |->
                     [at_cycle |-> s.pending[i].at_cycle - s.cycles,
                      order |-> i - 1,
                      event |-> s.pending[i].event]]]

\* Scheduler::schedule_in
ScheduleIn(s, cycles_from_now, event) ==
    ScheduleAtState(s, s.cycles + cycles_from_now, event)

\* Emulator3ds::schedule_boot_events
ScheduleBootEvents(s) ==
    ScheduleIn(ScheduleIn(s, TimerPeriod, TimerExpiry), VBlankPeriod, VBlank)

\* Emulator3ds::handle_scheduled_event on the machine m = (emulator e,
\* kernel k, memory r).
HandleScheduledEvent(m, event) ==
    CASE event.kind = "TimerExpiry" ->
             [m EXCEPT !.e.irq = IrqRaise(@, Timer0),
                       !.e.scheduler = ScheduleIn(@, TimerPeriod, TimerExpiry)]
      [] event.kind = "VBlank" ->
             [m EXCEPT !.e.irq = IrqRaise(@, VBlankLine),
                       !.e.scheduler = ScheduleIn(@, VBlankPeriod, VBlank)]
      [] event.kind = "DmaCompletion" ->
             LET d == DmaCompleteTransfer(m.e.dma, event.channel, m.r)
                 fed == DmaFeedWords(m.e.dma, event.channel, m.r)
                 irq2 == IF d.done THEN IrqRaise(m.e.irq, Dma0) ELSE m.e.irq
                 idx == FirstOnChannel(m.e.dma, event.channel)
             IN  [m EXCEPT !.e.dma = d.in_flight,
                           !.e.dmaWait =
                               IF idx = 0 THEN @
                               ELSE SubSeq(@, 1, idx - 1)
                                        \o SubSeq(@, idx + 1, Len(@)),
                           !.e.irq = irq2,
                           !.e.gpu = EnqueueGspFifoWords(@, fed),
                           !.e.cycle.fed = @ \o fed,
                           !.r = d.memory,
                           !.e.dmaDone =
                               [handled |-> TRUE,
                                channel |-> event.channel,
                                in_flight_before |-> m.e.dma,
                                in_flight_after |-> d.in_flight,
                                memory_before |-> m.r,
                                memory_after |-> d.memory,
                                irq_before |-> m.e.irq,
                                irq_after |-> irq2,
                                early |-> IF idx = 0 THEN 0
                                          ELSE m.e.dmaWait[idx]]]

\* The loop over the drained events.
RECURSIVE HandleScheduledEvents(_, _)
HandleScheduledEvents(m, due) ==
    IF due = <<>> THEN m
    ELSE Bind(HandleScheduledEvent(m, Head(due).event),
              LAMBDA handled : HandleScheduledEvents(handled, Tail(due)))

\* Kernel::dispatch_syscall as handle_swi calls it (no arguments, so
\* duplicate-handle and close-handle do nothing).
DispatchSyscall(k, pid, imm24, order) ==
    LET k1 == EnsureProcess(k, pid)
    IN  CASE imm24 = 35 -> CreateEvent(k1, pid).k
          [] imm24 = 50 -> PumpIpcEvents(k1, order, 1)
          [] OTHER -> k1

\* Kernel::handle_swi
HandleSwi(k, imm24, order) == DispatchSyscall(k, 1, imm24, order)

\* The dispatch a pump of budget 1 made, if any.
Dispatched(before, after, order) ==
    IF FirstReady(before, order) = 0 THEN None ELSE after.last_ipc

\* History: a dispatch that failed joins the unreported ones.
NoteDispatch(e, dispatch) ==
    IF ~dispatch.none /\ dispatch.value[3] # RESULT_OK
    THEN [e EXCEPT !.unreported = Append(@, dispatch.value)]
    ELSE e

\* History: the first unreported dispatch equal to the one returned leaves.
RECURSIVE RemoveFirst(_, _)
RemoveFirst(s, x) ==
    IF s = <<>> THEN <<>>
    ELSE IF Head(s) = x THEN Tail(s)
    ELSE <<Head(s)>> \o RemoveFirst(Tail(s), x)

\* The hand-over loop of run_cycles: each fragment the kernel produced is
\* enqueued in the GPU FIFO, oldest first.
RECURSIVE EnqueueAll(_, _)
EnqueueAll(g, fragments) ==
    IF fragments = <<>> THEN g
    ELSE EnqueueAll(EnqueueGspFifoWords(g, Head(fragments)), Tail(fragments))

\* One iteration of the run_cycles loop on the machine m with the CPU
\* decoding instr: interrupt delivery, CPU step, scheduler tick, the pump of
\* budget 1 with the check of its dispatch, the drain of the due events, the
\* hand-over of the kernel's GPU fragments and the GPU tick, the SWI
\* hand-over to the kernel, the check of the MMU fault, the halt check.
\* exit tells how the iteration left the loop.
RunCycle(m, instr, order) ==
    LET e0 == m.e IN
    Bind(NextPending(e0.irq), LAMBDA line :
    LET deliver == InterruptsEnabled(e0.cpu) /\ ~line.none
        irq1 == IF deliver THEN IrqClear(e0.irq, line.value) ELSE e0.irq
        cpu1 == IF deliver THEN EnterIrq(e0.cpu, line.value) ELSE e0.cpu
    IN
    Bind(RunCpuStep(cpu1, instr), LAMBDA st :
    Bind(PumpIpcEvents(m.k, order, 1), LAMBDA k1 :
    LET entered == IF cpu1.state = "Running"
                      /\ instr.op \in {"swi", "undefined",
                                       "prefetch_abort", "data_abort"}
                   THEN st.cpu.last_exception
                   ELSE IF deliver THEN cpu1.last_exception ELSE None
        sched1 == [e0.scheduler EXCEPT !.cycles = @ + st.consumed]
        taken == k1.last_ipc
        k2 == [k1 EXCEPT !.last_ipc = None]
    IN
    Bind(NoteDispatch(
             [e0 EXCEPT !.irq = irq1,
                        !.cpu = st.cpu,
                        !.scheduler = sched1,
                        !.dmaWait = Elapse(@, st.consumed),
                        !.calls.swis =
                            IF cpu1.state = "Running" /\ instr.op = "swi"
                            THEN @ + 1 ELSE @,
                        !.cycle = [ran |-> TRUE,
                                   faulted |-> st.cpu.last_mmu_fault,
                                   exception |-> entered,
                                   delivery |->
                                       [enabled |-> ~e0.cpu.i,
                                        before |-> e0.irq,
                                        at_step |-> irq1,
                                        entered |-> IF deliver
                                                    THEN cpu1.last_exception
                                                    ELSE None,
                                        after |-> irq1],
                                   fed |-> <<>>]],
             Dispatched(m.k, k1, order)), LAMBDA e1 :
    IF ~taken.none /\ taken.value[3] # RESULT_OK
    THEN [m |-> [e |-> [e1 EXCEPT
                           !.fault_snapshots =
                               RingPush(@, ServiceCallFailure(taken.value),
                                        FaultRingCap),
                           !.unreported = RemoveFirst(@, taken.value),
                           !.result = ServiceCallError(taken.value)],
                 k |-> k2,
                 r |-> m.r],
          exit |-> "return", consumed |-> st.consumed]
    ELSE
    Bind(SortByKey(DueOf(sched1)), LAMBDA due :
    Bind([e |-> [e1 EXCEPT !.scheduler.pending = RemainOf(sched1)],
          k |-> k2,
          r |-> m.r], LAMBDA m1 :
    Bind(HandleScheduledEvents(m1, due), LAMBDA drained_m :
    Bind([drained_m EXCEPT
              !.e.gpu = Tick(EnqueueAll(@, drained_m.k.gpu_handoff)),
              !.k.gpu_handoff = <<>>], LAMBDA m2 :
    LET exception == m2.e.cpu.last_exception
        swi == ~exception.none
               /\ exception.value.kind = "SoftwareInterrupt"
    IN
    Bind(IF swi THEN HandleSwi(m2.k, exception.value.fault_opcode, order)
         ELSE m2.k, LAMBDA k3 :
    Bind(IF swi
         THEN NoteDispatch([m2.e EXCEPT !.calls.syscalls = @ + 1],
                           Dispatched(m2.k, k3, order))
         ELSE m2.e, LAMBDA e3 :
    LET fault == e3.cpu.last_mmu_fault
    IN  IF ~fault.none
        THEN [m |-> [e |-> [e3 EXCEPT
                               !.cycle.delivery.after = e3.irq,
                               !.cpu.last_mmu_fault = None,
                               !.fault_snapshots =
                                   RingPush(@, MmuFaultSnapshot(fault.value),
                                            FaultRingCap),
                               !.result = MmuError(fault.value)],
                     k |-> k3,
                     r |-> m2.r],
              exit |-> "return", consumed |-> st.consumed]
        ELSE [m |-> [e |-> [e3 EXCEPT !.cycle.delivery.after = e3.irq],
                     k |-> k3, r |-> m2.r],
              exit |-> IF e3.cpu.state = "Halted" THEN "break"
                       ELSE "continue",
              consumed |-> st.consumed]))))))))))

\* The loop of run_cycles over the instructions the CPU decodes, one per
\* unit of budget; `executed` is the sum of the cycles consumed so far.
RECURSIVE RunLoop(_, _, _, _)
RunLoop(m, instrs, order, executed) ==
    IF instrs = <<>> THEN [m EXCEPT !.e.result = OkResult(executed)]
    ELSE Bind(RunCycle(m, Head(instrs), order), LAMBDA c :
             IF c.exit = "return" THEN c.m
             ELSE IF c.exit = "break"
             THEN [c.m EXCEPT !.e.result = OkResult(executed + c.consumed)]
             ELSE RunLoop(c.m, Tail(instrs), order, executed + c.consumed))

\* Emulator3ds::run_cycles(budget) with budget = Len(instrs).
EmuRunCycles(instrs, order) ==
    /\ (\E i \in DOMAIN instrs :
            instrs[i].op \in {"prefetch_abort", "data_abort"})
           => Len(emu.fault_snapshots) < MaxFaults
    /\ IF ~emu.rom_loaded
       THEN /\ emu' = [emu EXCEPT !.result = RomNotLoaded, !.cycle = NoCycle,
                                  !.calls = NoCalls]
            /\ UNCHANGED <<kernel, ram>>
       ELSE \E m \in {RunLoop([e |-> [emu EXCEPT !.dmaDone = NoDma,
                                                 !.calls = NoCalls],
                               k |-> kernel, r |-> ram],
                              instrs, order, 0)} :
                /\ emu' = [m.e EXCEPT !.scheduler = Rebase(@)]
                /\ kernel' = m.k
                /\ ram' = m.r
    /\ UNCHANGED notEmu

\* Emulator3ds::load_rom with a well-formed image: the writable memory is
\* cleared, the CPU, scheduler, interrupt controller and DMA engine are
\* reset, the diagnostics are cleared and the boot events are scheduled.
\* The kernel is left as it is.  The bytes of the image are not followed.
LoadRom(e) ==
    [e EXCEPT !.rom_loaded = TRUE,
              !.cpu = RunCpuReset,
              !.scheduler = ScheduleBootEvents(SchedulerNew),
              !.irq = IrqReset(@),
              !.dma = <<>>,
              !.dmaWait = <<>>,
              !.fault_snapshots = <<>>,
              !.result = NoResult,
              !.cycle = NoCycle,
              !.dmaDone = NoDma,
              !.calls = NoCalls,
              !.load_result = "Ok"]

\* Memory::clear_writable
ClearWritable(m) == [m EXCEPT !.data = <<>>]

EmuLoadRom ==
    /\ emu' = LoadRom(emu)
    /\ ram' = ClearWritable(ram)
    /\ UNCHANGED <<kernel, notEmu>>

\* Emulator3ds::load_rom with an image shorter than the NCSD header:
\* Memory::clear_writable runs, then parse_process_image_from_rom returns
\* RomTooSmall and `?` leaves load_rom.  load_result is history, the value
\* the last load_rom call returned.
EmuLoadRomTooSmall ==
    /\ emu' = [emu EXCEPT !.load_result = "RomTooSmall"]
    /\ ram' = ClearWritable(ram)
    /\ UNCHANGED <<kernel, notEmu>>

\* Emulator3ds::queue_dma_memcpy: DmaEngine::queue_transfer, then the
\* completion event after max(words, 1) cycles.
EmuQueueDmaMemcpy(channel, source, destination, words) ==
    /\ Len(emu.dma) < MaxInFlight
    /\ emu' = [emu EXCEPT
                  !.dma = Append(@, DmaTransfer(channel, source, destination,
                                                words, "MemoryToMemory")),
                  !.dmaWait = Append(@, IF words > 1 THEN words ELSE 1),
                  !.scheduler =
                      ScheduleIn(@, IF words > 1 THEN words ELSE 1,
                                 DmaCompletion(channel))]
    /\ UNCHANGED <<kernel, ram, notEmu>>

\* Emulator3ds::queue_dma_gpu_feed: DmaEngine::queue_transfer, then the
\* completion event after max(words, 1) cycles.
EmuQueueDmaGpuFeed(channel, source, words) ==
    /\ Len(emu.dma) < MaxInFlight
    /\ emu' = [emu EXCEPT
                  !.dma = Append(@, DmaTransfer(channel, source, 0, words,
                                                "GpuQueueFeed")),
                  !.dmaWait = Append(@, IF words > 1 THEN words ELSE 1),
                  !.scheduler =
                      ScheduleIn(@, IF words > 1 THEN words ELSE 1,
                                 DmaCompletion(channel))]
    /\ UNCHANGED <<kernel, ram, notEmu>>

\* Emulator3ds::enqueue_gpu_fifo_words
EmuEnqueueGpuFifoWords(words) ==
    /\ emu' = [emu EXCEPT !.gpu = EnqueueGspFifoWords(@, words)]
    /\ UNCHANGED <<kernel, ram, notEmu>>

\* Emulator3ds::write_phys_u32
EmuWritePhysU32(addr, value) ==
    /\ ram' = MemoryWriteU32(ram, addr, value)
    /\ UNCHANGED <<emu, kernel, notEmu>>

InitEmu == emu = EmulatorNew

\* Events the scheduler may hold when one more is scheduled from outside.
MaxPending == 3

\* scheduler.schedule_in(1, DmaCompletion { channel }) on the emulator's
\* scheduler, as the tests of the module schedule events.
EmuScheduleDmaCompletion(channel) ==
    /\ Len(emu.scheduler.pending) < MaxPending
    /\ emu' = [emu EXCEPT !.scheduler = ScheduleIn(@, 1, DmaCompletion(channel))]
    /\ UNCHANGED <<kernel, ram, notEmu>>

(***************************************************************************)
(* Operand-2 shifter of the data-processing instructions                   *)
(* (src/src/core/cpu.rs)                                                   *)
(***************************************************************************)

\* value << shift, value >> shift, (value as i32) >> shift and
\* value.rotate_right(shift) on u32, for shift in 0..31.
ShiftLeft(value, shift) ==
    WordOfBits([k \in 0..31 |-> IF k >= shift THEN BitOf(value, k - shift)
                                ELSE 0])

ShiftRight(value, shift) ==
    WordOfBits([k \in 0..31 |-> IF k + shift <= 31 THEN BitOf(value, k + shift)
                                ELSE 0])

ArithmeticShiftRight(value, shift) ==
    WordOfBits([k \in 0..31 |-> IF k + shift <= 31 THEN BitOf(value, k + shift)
                                ELSE BitOf(value, 31)])

RotateRight(value, shift) ==
    WordOfBits([k \in 0..31 |-> BitOf(value, (k + shift) % 32)])

\* Arm11Cpu::shift_value: <<result, carry>>; carry_flag is CPSR.C.
ShiftValue(carry_flag, value, shift_imm, shift_type) ==
    CASE shift_type = 0 ->
             IF shift_imm = 0 THEN <<value, carry_flag>>
             ELSE <<ShiftLeft(value, shift_imm),
                    BitOf(value, 32 - shift_imm) = 1>>
      [] shift_type = 1 ->
             LET shift == IF shift_imm = 0 THEN 32 ELSE shift_imm
             IN  IF shift >= 32 THEN <<0, BitOf(value, 31) = 1>>
                 ELSE <<ShiftRight(value, shift), BitOf(value, shift - 1) = 1>>
      [] shift_type = 2 ->
             LET shift == IF shift_imm = 0 THEN 32 ELSE shift_imm
                 sign == BitOf(value, 31) = 1
                 res == IF shift >= 32 THEN (IF sign THEN -1 ELSE 0)
                        ELSE ArithmeticShiftRight(value, shift)
             IN  <<res, BitOf(value, Min(Max(shift - 1, 0), 31)) = 1>>
      [] shift_type = 3 ->
             LET shift == IF shift_imm = 0 THEN 1 ELSE shift_imm
                 res == RotateRight(value, shift)
             IN  <<res, BitOf(res, 31) = 1>>
      [] OTHER -> <<value, carry_flag>>

\* CPSR.C after reset is clear; no shift has been made.
ShifterNew ==
    [c |-> FALSE, ran |-> FALSE, carry_in |-> FALSE, value |-> 0,
     shift_imm |-> 0, shift_type |-> 0, result |-> 0, carry |-> FALSE]

\* Arm11Cpu::exec_data_processing for MOV / MOVS Rd, Rm, <shift> #shift_imm
\* with Rm holding value: Rd takes the shifted operand, and with the S bit
\* update_nzcv_logical moves the shifter's carry into CPSR.C.
ExecMovShifted(value, shift_imm, shift_type, set_flags) ==
    LET out == ShiftValue(shifter.c, value, shift_imm, shift_type)
    IN  /\ shifter' = [c |-> IF set_flags THEN out[2] ELSE shifter.c,
                       ran |-> TRUE,
                       carry_in |-> shifter.c,
                       value |-> value,
                       shift_imm |-> shift_imm,
                       shift_type |-> shift_type,
                       result |-> out[1],
                       carry |-> out[2]]
        /\ UNCHANGED notShifter

InitShifter == shifter = ShifterNew

(***************************************************************************)
(* Branches and writes to PC (src/src/core/cpu.rs)                         *)
(***************************************************************************)

\* exec_bx and the BX case of exec_thumb_hi_reg_bx with Rm = LR: bit 0 of
\* the target selects the Thumb state and is cleared in PC.
ExecBx(c) ==
    LET target == c.regs.lr
    IN  [c EXCEPT !.cpsr.t = (target % 2 = 1),
                  !.regs.pc = target - (target % 2)]

\* exec_branch at the instruction address pc with a signed offset in words:
\* BL puts pc + 4 into LR; the target is pc + 8 + 4 * offset.
ExecBranch(c, pc, offset, link) ==
    LET linked == IF link THEN [c EXCEPT !.regs.lr = pc + 4] ELSE c
    IN  [linked EXCEPT !.regs.pc = pc + 8 + 4 * offset]

\* exec_data_processing for MOV PC, LR: PC takes LR as it is.
ExecMovPcLr(c) == [c EXCEPT !.regs.pc = c.regs.lr]

\* step_arm on BX LR.
CpuBx ==
    /\ ~cpu.cpsr.t
    /\ FetchAligned(cpu)
    /\ LET c2 == ExecBx([cpu EXCEPT !.regs.pc = @ + 4])
       IN  CpuStep(c2, "BX", Visible(c2))

\* step_thumb on BX LR.
CpuThumbBx ==
    /\ cpu.cpsr.t
    /\ FetchAligned(cpu)
    /\ LET c2 == ExecBx([cpu EXCEPT !.regs.pc = @ + 2])
       IN  CpuStep(c2, "BX", Visible(c2))

\* step_arm on B or BL with a forward offset.
CpuBranch(offset, link) ==
    /\ ~cpu.cpsr.t
    /\ FetchAligned(cpu)
    /\ LET c2 == ExecBranch([cpu EXCEPT !.regs.pc = @ + 4], cpu.regs.pc,
                            offset, link)
       IN  CpuStep(c2, "B", Visible(c2))

\* step_arm on MOV PC, LR.
CpuMovPcLr ==
    /\ ~cpu.cpsr.t
    /\ FetchAligned(cpu)
    /\ LET c2 == ExecMovPcLr([cpu EXCEPT !.regs.pc = @ + 4])
       IN  CpuStep(c2, "MOV", Visible(c2))

(***************************************************************************)
(* Coprocessor writes (src/src/core/cpu.rs exec_coprocessor)               *)
(***************************************************************************)

\* exec_coprocessor, MCR p15, 0, Rd, c<crn>, c<crm>, <opc2> with Rd holding
\* `value`: the MMU after the write.  The copy kept in cp15_regs is not
\* followed.  The CPU mode is not consulted.
ExecMcr(m, crn, crm, opc2, value) ==
    CASE <<crn, crm, opc2>> = <<1, 0, 0>> -> WriteControl(m, value)
      [] <<crn, crm, opc2>> = <<2, 0, 0>> -> WriteTtbr0(m, value)
      [] <<crn, crm, opc2>> = <<3, 0, 0>> -> WriteDacr(m, value)
      [] <<crn, crm, opc2>> \in {<<8, 7, 0>>, <<8, 5, 0>>, <<8, 6, 0>>} ->
             InvalidateTlb(m)
      [] OTHER -> m

\* step_arm on MCR p15, 0, Rd, c<crn>, c<crm>, 0 (ARM state).
CpuMcr(crn, crm, value) ==
    /\ ~cpu.cpsr.t
    /\ FetchAligned(cpu)
    /\ cpuGhost.steps < MaxCpuSteps
    /\ cpu' = [cpu EXCEPT !.regs.pc = @ + 4]
    /\ cpuGhost' = GhostStep(cpuGhost, cpu, cpu', "MCR", Visible(cpu'))
    /\ mmu' = ExecMcr(mmu, crn, crm, 0, value)
    /\ xlat' = NoCall(~TlbEmpty(mmu') /\ xlat.dirty)
    /\ UNCHANGED <<mem, schedVars, kernelVars, memVars, codec, auxVars>>

(***************************************************************************)
(* Specifications                                                          *)
(***************************************************************************)

\* The devices beside the core in their state after construction.
InitAux ==
    /\ InitIrq
    /\ InitTiming
    /\ InitEmu
    /\ InitGpu
    /\ InitShifter

\* The scheduler on its own; the kernel sits in one of its boot states.
InitOfSched ==
    /\ InitSched
    /\ KernelIdle
    /\ InitCpu
    /\ InitMmu
    /\ InitMem
    /\ InitCodec
    /\ InitAux

\* The IPC traffic on its own, from one boot state.
InitOfIpc ==
    /\ InitSched
    /\ KernelIdle
    /\ InitCpu
    /\ InitMmu
    /\ InitMem
    /\ InitCodec
    /\ InitAux

\* The kernel on its own, from any of its boot states.
Init ==
    /\ InitSched
    /\ InitKernel
    /\ InitCpu
    /\ InitMmu
    /\ InitMem
    /\ InitCodec
    /\ InitAux

\* The CPU on its own.
InitOfCpu ==
    /\ InitSched
    /\ KernelIdle
    /\ InitCpu
    /\ InitMmu
    /\ InitMem
    /\ InitCodec
    /\ InitAux

NextSched ==
    \/ SchedTick
    \/ SchedScheduleAt
    \/ SchedScheduleIn
    \/ SchedDrainDue

SpecSched == InitOfSched /\ [][NextSched]_vars

\* Handles offered to duplicate_handle and close_handle: the handles
\* allocated after boot and the value below the first handle, which is
\* never bound.
HandleInputs == {FirstHandle - 1} \cup (FirstHandle + 5)..HandleMax

\* Session handles offered to queue_ipc_command: the first handle allocated
\* after boot and the never-bound one.
SessionInputs == {FirstHandle - 1, FirstHandle + 5}

\* srv GetServiceHandle("fs:USER"): a dispatch that allocates a handle.
GetFsUser == CommandWords(5, service_name_words("fs:USER"))

\* The handle-table operations, with one kind of IPC request.
NextKernel ==
    \/ \E pid \in Pids : KEnsureProcess(pid)
    \/ \E pid \in Pids : KCreateEvent(pid)
    \/ \E pid \in Pids, handle \in HandleInputs : KDuplicateHandle(pid, handle)
    \/ \E pid \in Pids, handle \in HandleInputs : KCloseHandle(pid, handle)
    \/ \E pid \in Pids : KConnectToService(pid, "srv:")
    \/ \E pid \in Pids : KRegisterServicePort(pid, "new:svc", 4)
    \/ \E pid \in Pids : KQueueIpcCommand(pid, FirstHandle + 5, GetFsUser)
    \/ \E order \in IterationOrders(kernel) : KPumpIpcEvents(1, order)
    \/ \E pid \in Pids : KPopIpcResponse(pid)

SpecKernel == Init /\ [][NextKernel]_vars

\* Raw word vectors offered to queue_ipc_command: srv RegisterService and
\* GetServiceHandle, and an empty buffer, which fails to parse.
IpcWordInputs ==
    {CommandWords(1, service_name_words("fs:USER") \o <<4>>),
     GetFsUser,
     <<>>}

\* The IPC traffic: sessions are opened, requests queued, pumped and their
\* responses popped.
NextIpc ==
    \/ \E pid \in Pids : KConnectToService(pid, "srv:")
    \/ \E pid \in Pids, session_handle \in SessionInputs,
          words \in IpcWordInputs :
           KQueueIpcCommand(pid, session_handle, words)
    \/ \E budget \in 1..MaxBudget, order \in IterationOrders(kernel) :
           KPumpIpcEvents(budget, order)
    \/ \E pid \in Pids : KPopIpcResponse(pid)

SpecIpc == InitOfIpc /\ [][NextIpc]_vars

\* Instructions and interrupts that change the mode, the status registers
\* or the banked registers.
NextCpu ==
    \/ \E rd \in {"sp", "lr"}, value \in 1..MaxRegValue : CpuMovImm(rd, value)
    \/ \E flags \in {0, NibbleZ} : CpuSetFlags(flags)
    \/ \E kind \in ExceptionKinds : CpuTakeException(kind)
    \/ \E value \in MsrInputs : CpuMsr(value)
    \/ CpuMovsPcLr

SpecCpu == InitOfCpu /\ [][NextCpu]_vars

\* The MMU on its own.
InitOfMmu ==
    /\ InitSched
    /\ KernelIdle
    /\ InitCpu
    /\ InitMmu
    /\ InitMem
    /\ InitCodec
    /\ InitAux

\* Two translation tables at 16 KiB boundaries of FCRAM.
TableBase(i) == 16384 * i
Tables == {1, 2}
MaxSection == 1

\* Values written to TTBR0: the tables, an address with low bits set, and a
\* base where no memory is mapped.
Ttbr0Inputs ==
    {TableBase(i) : i \in Tables} \cup {TableBase(1) + 4, UnmappedAddr}

\* Control values: MMU off, MMU on, and MMU on with another bit (alignment
\* check) that leaves the TLB alone.
ControlInputs == {0, 1, 3}

\* Virtual addresses translated, one in each section.
VaInputs == {s * SectionSize + 4660 : s \in 0..MaxSection}

\* Words stored in table i: a fault descriptor, or a section with full
\* access in domain 0 whose physical base differs between the tables.
DescriptorInputs(i) == {0, Descriptor((7 + i) * SectionSize, 0, 3, 0, 0, 2)}

\* Configuration, table edits and translations.
NextMmu ==
    \/ \E value \in ControlInputs : MmuWriteControl(value)
    \/ \E value \in Ttbr0Inputs : MmuWriteTtbr0(value)
    \/ \E value \in {0, 1} : MmuWriteDacr(value)
    \/ MmuInvalidateTlb
    \/ \E va \in VaInputs, access \in {"Read", "Write"} :
           MmuTranslate(va, access, TRUE)
    \/ \E i \in Tables, s \in 0..MaxSection :
           \E word \in DescriptorInputs(i) :
               MemWriteWord(TableBase(i) + 4 * s, word)

SpecMmu == InitOfMmu /\ [][NextMmu]_vars

MaxDomain == 1

\* Section descriptors with every AP, APX and XN, in domains 0..MaxDomain.
PermDescriptors ==
    {Descriptor(8 * SectionSize, apx, ap, domain, xn, 2) :
        apx \in 0..1, ap \in 0..3, domain \in 0..MaxDomain, xn \in 0..1}

\* DACR values: domain 0 in each of the four modes, and domain 1 a client.
DacrInputs == {0, 1, 2, 3, 4}

\* One section of one table under every permission setting.
NextMmuPerm ==
    \/ MmuWriteControl(1)
    \/ MmuWriteTtbr0(TableBase(1))
    \/ \E value \in DacrInputs : MmuWriteDacr(value)
    \/ MmuInvalidateTlb
    \/ \E access \in AccessKinds, privileged \in BOOLEAN :
           MmuTranslate(4660, access, privileged)
    \/ \E word \in PermDescriptors : MemWriteWord(TableBase(1), word)

SpecMmuPerm == InitOfMmu /\ [][NextMmuPerm]_vars


\* The memory bus on its own.
InitOfMem ==
    /\ InitSched
    /\ KernelIdle
    /\ InitCpu
    /\ InitMmu
    /\ InitMem
    /\ InitCodec
    /\ InitAux

\* Addresses written: the start of FCRAM, the last two bytes of VRAM (a word
\* there runs off the segment), the start of the read-only BIOS, and the ROM
\* base, where nothing is mapped until an image is installed.
MemAddrInputs ==
    {FCRAM_START, FCRAM_START + 2, VRAM_START + VRAM_SIZE - 2,
     BIOS_START, ROM_START}

\* Every byte a write of the inputs can cover.
MemReadInputs == {a + k : a \in MemAddrInputs, k \in 0..3}

\* Checked byte and word writes, and checked reads.
NextMem ==
    \/ \E addr \in MemAddrInputs, value \in {1, 255} : MemWriteU8(addr, value)
    \/ \E addr \in MemAddrInputs, value \in {67305985, 134678021} :
           MemWriteU32(addr, value)
    \/ \E addr \in MemReadInputs : MemReadU8(addr)
    \/ \E addr \in MemAddrInputs : MemReadU32(addr)

SpecMem == InitOfMem /\ [][NextMem]_vars

\* The IPC codec on its own, started on any of the valid messages.
InitOfCodec ==
    /\ InitSched
    /\ KernelIdle
    /\ InitCpu
    /\ InitMmu
    /\ InitMem
    /\ codec \in {CodecNew(msg) : msg \in MessageInputs}
    /\ InitAux

NextCodec ==
    \/ CodecIntoWords
    \/ CodecParse

SpecCodec == InitOfCodec /\ [][NextCodec]_vars

\* The devices on their own, beside an idle core.
InitOfDevices ==
    /\ InitSched
    /\ KernelIdle
    /\ InitCpu
    /\ InitMmu
    /\ InitMem
    /\ InitCodec
    /\ InitAux

\* The interrupt controller on its own.  Masks: each subset of the three
\* lines, a bit no line uses, every bit, and every bit but the lines'.
MaskInputs == (0..8) \cup {U32_MAX, -8}

NextIrq ==
    \/ IrqCtlReset
    \/ \E mask \in MaskInputs : IrqCtlSetEnabledMask(mask)
    \/ \E line \in IrqLines : IrqCtlRaise(line)
    \/ \E line \in IrqLines : IrqCtlClear(line)
    \/ IrqCtlNextPending

SpecIrq == InitOfDevices /\ [][NextIrq]_vars

\* The timing model on its own.  Cycle counts: half an audio sample period
\* (CPU_HZ / AUDIO_HZ = 5583.3 cycles) and the largest tick.
TickInputs == {2792, MaxTickCycles}

NextTiming ==
    \/ \E cycles \in TickInputs : TimingDoTick(cycles)
    \/ TimingDoReset

SpecTiming == InitOfDevices /\ [][NextTiming]_vars

\* The drift policy: a few ticks (130 microseconds each at the largest),
\* the default thresholds and tighter ones, an anchor at 0 and a later one,
\* and budgets asked for wall-clock stamps before and after the anchor.
MaxDriftTicks == 3
DriftPolicyInputs == {<<2000, 8000>>, <<100, 200>>}
DriftAnchorInputs == {0, 500}
DriftNowInputs == {0, 300, 1000, 9000}
DriftRequestInputs == {0, 1, 10000}

NextDrift ==
    \/ \E cycles \in TickInputs :
           timing.ticks < MaxDriftTicks /\ TimingDoTick(cycles)
    \/ \E p \in DriftPolicyInputs : TimingSetDriftPolicy(p[1], p[2])
    \/ \E anchor \in DriftAnchorInputs : TimingSetWallTimeAnchorUs(anchor)
    \/ \E now \in DriftNowInputs, requested \in DriftRequestInputs :
           TimingRecommendedCycleBudget(now, requested)

SpecDrift == InitOfDevices /\ [][NextDrift]_vars

\* Instructions the CPU is given to decode, by what they decode to.
Plain == [op |-> "plain"]
Wfi == [op |-> "wfi"]
Swi(imm24) == [op |-> "swi", imm24 |-> imm24]
Undefined == [op |-> "undefined"]
PrefetchAbort(kind) == [op |-> "prefetch_abort", kind |-> kind]
DataAbort(kind) == [op |-> "data_abort", kind |-> kind]
Msr(i, user) == [op |-> "msr", i |-> i, user |-> user]

\* The run loop with IPC traffic and faulting instructions: send-sync-request
\* (SWI 0x32), an undefined instruction, a fetch and a load whose
\* translation faults, and MSR enabling interrupts.
InstrInputs ==
    {Plain, Swi(50), Undefined, PrefetchAbort("Translation"),
     DataAbort("Permission"), Msr(FALSE, FALSE)}

\* The instructions decoded during one run_cycles call: budget 1 with each
\* instruction, and budget 2 with a SWI or a plain instruction first.
RunInputs ==
    {<<instr>> : instr \in InstrInputs}
        \cup {<<Swi(50), Plain>>, <<Plain, PrefetchAbort("Domain")>>}

\* A request of process 1 on the first handle allocated after boot, which
\* names no object while no process has connected: get-app-state.
NextRun ==
    \/ EmuLoadRom
    \/ \E instrs \in RunInputs, order \in IterationOrders(kernel) :
           EmuRunCycles(instrs, order)
    \/ KQueueIpcCommand(KERNEL_PROCESS_ID, FirstHandle + 5,
                        CommandWords(1, <<>>))

SpecRun == InitOfDevices /\ [][NextRun]_vars

\* The run loop with a served session.  Before the ROM is loaded process 1
\* connects to apt:u, which makes the first handle allocated after boot a
\* session of process 1, and requests are queued on that handle: by process
\* 1 get-app-state (command 1, ok on the session) and an unknown command 3,
\* by process 2 (whose table lacks the handle) get-app-state.  The CPU then
\* runs plain instructions and the send-sync-request SWI.
RunIpcInputs == {<<Plain>>, <<Swi(50)>>, <<Swi(50), Plain>>}

RunRequestInputs == {CommandWords(1, <<>>), CommandWords(3, <<>>)}

NextRunIpc ==
    \/ EmuLoadRom
    \/ \E instrs \in RunIpcInputs, order \in IterationOrders(kernel) :
           EmuRunCycles(instrs, order)
    \/ ~emu.rom_loaded /\ KConnectToService(KERNEL_PROCESS_ID, "apt:u")
    \/ \E words \in RunRequestInputs :
           ~emu.rom_loaded
               /\ KQueueIpcCommand(KERNEL_PROCESS_ID, FirstHandle + 5, words)
    \/ ~emu.rom_loaded
           /\ KQueueIpcCommand(2, FirstHandle + 5, CommandWords(1, <<>>))

SpecRunIpc == InitOfDevices /\ [][NextRunIpc]_vars

\* The run loop around a halting CPU: wait-for-interrupt, SWI yield, MSR
\* enabling interrupts, and DMA transfers of no words on channel 0.
HaltInputs ==
    {<<Plain>>, <<Wfi>>, <<Swi(0)>>, <<Msr(FALSE, FALSE)>>, <<Wfi, Plain>>}

HaltRun ==
    \E instrs \in HaltInputs, order \in IterationOrders(kernel) :
        EmuRunCycles(instrs, order)

NextHalt ==
    \/ EmuLoadRom
    \/ HaltRun
    \/ EmuQueueDmaMemcpy(0, FCRAM_START, FCRAM_START, 0)

\* run_cycles is called again and again.
SpecHalt == InitOfDevices /\ [][NextHalt]_vars /\ WF_vars(HaltRun)

\* DMA.  After load_rom and before the first run_cycles call words are
\* written at 0x80 and 0x84, transfers are queued on channels 0 and 1 and
\* a completion event may be scheduled directly; the run loop then handles
\* the events.  The transfers: two words from 0x80 to 0x100 (apart), two
\* words from 0x80 to 0x84 (overlapping), one word from 0x80 into the
\* read-only BIOS segment, and one word from an unmapped address to 0x100.
DmaSource == FCRAM_START + 128
DmaOverlap == DmaSource + 4
DmaApart == FCRAM_START + 256
DmaUnmapped == ROM_START

DmaInputs ==
    {<<0, DmaSource, DmaApart, 2>>,
     <<0, DmaSource, DmaOverlap, 2>>,
     <<1, DmaSource, BIOS_START, 1>>,
     <<1, DmaUnmapped, DmaApart, 1>>}

DmaWriteInputs == {<<DmaSource, 1>>, <<DmaOverlap, 2>>, <<DmaApart, 3>>}

DmaSetup == emu.rom_loaded /\ ~emu.cycle.ran

NextDma ==
    \/ EmuLoadRom
    \/ \E order \in IterationOrders(kernel) : EmuRunCycles(<<Plain>>, order)
    \/ \E t \in DmaInputs :
           DmaSetup /\ EmuQueueDmaMemcpy(t[1], t[2], t[3], t[4])
    \/ \E w \in DmaWriteInputs : DmaSetup /\ EmuWritePhysU32(w[1], w[2])
    \/ \E channel \in {0, 1} : DmaSetup /\ EmuScheduleDmaCompletion(channel)
    \/ EmuLoadRomTooSmall

SpecDma == InitOfDevices /\ [][NextDma]_vars

\* A vertex stream of three vertices (position, colour, texture coordinate
\* each): pixel (1, 0); pixel (2, 1) at depth 256; and a point right of the
\* frame buffer that is clamped onto pixel (2, 1).
GpuVertexInputs ==
    {<<1, WordLe(200, 100, 50, 255), 0,
       65538, WordLe(10, 20, 30, 255), 0,
       65546, WordLe(1, 2, 3, 128), 0>>}

\* Two triangles; the second names a vertex the stream does not hold.
GpuIndexInputs == {<<0, 1, 2, 0, 1, 5>>}

GpuTexelInputs == {<<100, 200, 7, 255>>}

\* Chunks of FIFO words: a clear, a draw (base, count and trigger in one
\* sequential packet), shader code with its constant, blend and combiner
\* state in two packets, frame-buffer format, depth state, a packet whose
\* second payload word is missing, a packet with count 0, and a header
\* without its payload.
GpuFifoInputs ==
    {<<PacketEncode(REG_COLOR_CLEAR, 1, FALSE), WordLe(17, 34, 51, 255)>>,
     <<PacketEncode(REG_DRAW_BASE_VERTEX, 3, TRUE), 0, 7, 1>>,
     <<PacketEncode(REG_SHADER_CODE, 2, TRUE), 1, 255>>,
     <<PacketEncode(REG_SHADER_CODE, 2, TRUE), 0, 255>>,
     <<PacketEncode(REG_BLEND_EQ, 1, FALSE), 1,
       PacketEncode(REG_TEV_STAGE0, 1, FALSE), 1>>,
     <<PacketEncode(REG_FRAMEBUFFER_FORMAT, 1, FALSE), 1>>,
     <<PacketEncode(REG_DEPTH_STENCIL, 1, FALSE), 3>>,
     <<PacketEncode(REG_VIEWPORT_XY, 2, TRUE), 2>>,
     <<PacketEncode(REG_TEXTURE_FORMAT, 0, FALSE), 1>>,
     <<PacketEncode(REG_COLOR_CLEAR, 1, FALSE)>>}

\* The vertex stream is loaded before the index stream, both before the
\* first words are enqueued, and a texture at any time after them.
GpuLoaded == Len(gpu.loads) >= 2

NextGpu ==
    \/ \E words \in GpuVertexInputs :
           gpu.loads = <<>> /\ gpu.enqueued = 0 /\ GpuLoadVertexStream(words)
    \/ \E indices \in GpuIndexInputs :
           Len(gpu.loads) = 1 /\ gpu.enqueued = 0
               /\ GpuLoadIndexStreamU16(indices)
    \/ \E texels \in GpuTexelInputs :
           GpuLoaded /\ GpuLoadTextureRgba8(1, 1, texels)
    \/ \E words \in GpuFifoInputs : GpuEnqueueGspFifoWords(words)
    \/ GpuTick

SpecGpu == InitOfDevices /\ [][NextGpu]_vars

\* Requests on handles that are not sessions.  The first handles after boot
\* come to be a session to fs:USER, an event, a port, an archive or a file,
\* in either process, and are closed at any time; requests name them from
\* either process.
StaleHandleInputs == {FirstHandle + 5, FirstHandle + 6}
StaleWordInputs ==
    {CommandWords(1, <<0>>), CommandWords(2, <<FirstHandle + 6, 7>>)}

NextStale ==
    \/ KConnectToService(KERNEL_PROCESS_ID, "fs:USER")
    \/ \E pid \in Pids : KCreateEvent(pid)
    \/ KRegisterServicePort(2, "new:svc", 4)
    \/ \E pid \in Pids, handle \in StaleHandleInputs : KCloseHandle(pid, handle)
    \/ \E pid \in Pids, handle \in StaleHandleInputs, words \in StaleWordInputs :
           KQueueIpcCommand(pid, handle, words)
    \/ \E order \in IterationOrders(kernel) : KPumpIpcEvents(1, order)

SpecStale == InitOfIpc /\ [][NextStale]_vars

\* The shifter on its own: register values with either end bit set and
\* clear, shift amounts 0, 1 and 31, every shift type, with and without S.
ShiftValueInputs ==
    {0, 1, 2, 3, 1073741825, -1, -2147483647, (-2147483647) - 1}
ShiftImmInputs == {0, 1, 31}

NextShift ==
    \E value \in ShiftValueInputs, shift_imm \in ShiftImmInputs,
       shift_type \in 0..3, set_flags \in BOOLEAN :
        ExecMovShifted(value, shift_imm, shift_type, set_flags)

SpecShift == InitOfDevices /\ [][NextShift]_vars

\* The CPU with its branches: next to the steps of the CPU on its own, BX LR
\* in both instruction states, B and BL, and MOV PC, LR.  LR is given the
\* values 1 and 2 by MOV LR, #value, and the return addresses by BL and by
\* the exception entries.
NextBranch ==
    \/ \E value \in 1..MaxRegValue : CpuMovImm("lr", value)
    \/ \E kind \in ExceptionKinds : CpuTakeException(kind)
    \/ CpuMovsPcLr
    \/ CpuBx
    \/ CpuThumbBx
    \/ \E link \in BOOLEAN : CpuBranch(0, link)
    \/ CpuMovPcLr

SpecBranch == InitOfCpu /\ [][NextBranch]_vars

\* DMA feeding the GPU.  After load_rom and before the first run_cycles
\* call a packet writing 7 to the TEV stage register is stored at 0x80 and
\* GPU queue feeds are queued from there: both words on channel 0, the
\* header alone on channel 1, and no words on channel 0.  The host also
\* enqueues a packet directly.  The run loop then handles the completions.
\* Setup stops once the GPU trace holds MaxFeedTrace writes.
MaxFeedTrace == 2

FeedPacket == <<PacketEncode(REG_TEV_STAGE0, 1, FALSE), 7>>

FeedInputs == {<<0, 2>>, <<1, 1>>, <<0, 0>>}

FeedSetup == DmaSetup /\ Len(emu.gpu.trace) < MaxFeedTrace

NextFeed ==
    \/ EmuLoadRom
    \/ \E instrs \in {<<Plain>>, <<Plain, Plain>>},
          order \in IterationOrders(kernel) : EmuRunCycles(instrs, order)
    \/ \E i \in 1..2 :
           FeedSetup /\ EmuWritePhysU32(DmaSource + 4 * (i - 1), FeedPacket[i])
    \/ \E t \in FeedInputs :
           FeedSetup /\ EmuQueueDmaGpuFeed(t[1], DmaSource, t[2])
    \/ FeedSetup /\ emu.gpu.fifo = <<>>
           /\ EmuEnqueueGpuFifoWords(<<PacketEncode(REG_BLEND_EQ, 1, FALSE), 1>>)

SpecFeed == InitOfDevices /\ [][NextFeed]_vars

\* CP15 registers written by MCR and the values written: control, TTBR0,
\* DACR, a TLB invalidate and a register the MMU does not hold.
McrInputs ==
    {<<1, 0, 1>>, <<1, 0, 0>>, <<2, 0, 16384>>, <<3, 0, 1>>, <<8, 7, 0>>,
     <<13, 0, 1>>}

\* Mode changes and coprocessor writes, from user mode on.
NextPriv ==
    \/ \E kind \in ExceptionKinds : CpuTakeException(kind)
    \/ \E value \in MsrInputs : CpuMsr(value)
    \/ CpuMovsPcLr
    \/ \E w \in McrInputs : CpuMcr(w[1], w[2], w[3])

SpecPriv == InitOfCpu /\ [][NextPriv]_vars

(***************************************************************************)
(* Claims                                                                  *)
(***************************************************************************)

\* C1: the events returned by one drain_due_events call are in
\* lexicographic (fire-at cycle, event priority, insertion order) order with
\* priority timer = 0 < v-blank = 1 < DMA-completion = 2: for any two
\* returned events a before b, key(a) <= key(b).
C1_DrainSorted ==
    \A i, j \in 1..Len(drained) :
        i < j =>
            LET prio(ev) == IF ev.kind = "TimerExpiry" THEN 0
                            ELSE IF ev.kind = "VBlank" THEN 1 ELSE 2
                a == drained[i]
                b == drained[j]
            IN  /\ DrainResult[i] = a.event
                /\ DrainResult[j] = b.event
                /\ \/ a.at_cycle < b.at_cycle
                   \/ a.at_cycle = b.at_cycle /\ prio(a.event) < prio(b.event)
                   \/ /\ a.at_cycle = b.at_cycle
                      /\ prio(a.event) = prio(b.event)
                      /\ a.order <= b.order

\* C1 witness: a drain returned a v-blank before a DMA completion of the same
\* fire-at cycle although the DMA completion was scheduled first, and a third
\* event with an earlier fire-at in front of both.
C1_Witness ==
    /\ Len(drained) = 3
    /\ drained[2].event.kind = "VBlank"
    /\ drained[3].event.kind = "DmaCompletion"
    /\ drained[2].at_cycle = drained[3].at_cycle
    /\ drained[2].order > drained[3].order
    /\ drained[1].at_cycle < drained[2].at_cycle
    /\ drained[1].order > drained[2].order

\* The processes in whose handle table a handle is bound.
Holders(handle) ==
    {pid \in DOMAIN kernel.processes :
        handle \in DOMAIN kernel.processes[pid].handles}

\* C2: in every reachable kernel state each handle token is bound in at most
\* one process's handle table, so that a handle of process A does not
\* resolve (handle_type is None) in a different process B.
C2_HandleIsolation ==
    \A handle \in FirstHandle..HandleMax :
        \A a, b \in Holders(handle) :
            a # b => HandleType(kernel, b, handle) = None

\* The response and request queues of a process as issue numbers.
SeqsOf(queue) == [i \in 1..Len(queue) |-> queue[i].seq]

\* C3: for every process the responses popped so far, then the responses
\* waiting, then the requests waiting are the process's own requests 1, 2,
\* ... in the order they were queued, each exactly once: the k-th response
\* popped answers the k-th request queued, and a dispatch moves one request
\* into one response of the same process.
C3_PerProcessFifo ==
    \A pid \in Pids :
        LET all == IF pid \in DOMAIN kernel.processes
                   THEN kghost.popped[pid]
                        \o SeqsOf(kernel.processes[pid].pending_responses)
                        \o SeqsOf(kernel.processes[pid].pending_requests)
                   ELSE kghost.popped[pid]
        IN  /\ Len(all) = kghost.issued[pid]
            /\ \A k \in 1..Len(all) : all[k] = k

\* C3 witness: process 2 has popped two responses with different result
\* codes' requests behind them while process 1 has a response waiting and a
\* request still queued.
C3_Witness ==
    /\ kghost.popped[2] = <<1, 2>>
    /\ 1 \in DOMAIN kernel.processes
    /\ Len(kernel.processes[1].pending_responses) = 1
    /\ Len(kernel.processes[1].pending_requests) = 1
    /\ kernel.processes[1].pending_responses[1].result_code = RESULT_OK
    /\ kernel.processes[2].last_result_code = RESULT_INVALID_HANDLE

\* C4: when an exception is taken while CPSR holds c, then right after the
\* entry into the new mode M the saved status register SPSR_M equals c.
C4_SpsrHoldsInterruptedCpsr ==
    [][(cpuGhost'.steps = cpuGhost.steps + 1 /\ cpuGhost'.op \in ExceptionKinds)
          => cpu'.spsr[Mode(cpu')] = cpu.cpsr]_vars

\* C5: exception entry followed by exception return is a round trip: when
\* MOVS PC, LR executes in exception mode M whose innermost open frame was
\* entered from a different mode M0 with visible SP s0 and LR l0, the CPU is
\* back in M0 with SP = s0, LR = l0 and PC = M's LR.
C5_ExceptionRoundTrip ==
    [][(/\ cpuGhost'.steps = cpuGhost.steps + 1
        /\ cpuGhost'.op = "MOVS"
        /\ cpuGhost.frames # <<>>
        /\ Head(cpuGhost.frames).m = Mode(cpu)
        /\ Head(cpuGhost.frames).m0 # Mode(cpu))
          => /\ Mode(cpu') = Head(cpuGhost.frames).m0
             /\ cpu'.regs.sp = Head(cpuGhost.frames).s0
             /\ cpu'.regs.lr = Head(cpuGhost.frames).l0
             /\ cpu'.regs.pc = cpu.regs.lr]_vars

\* C6: across every step (exception entry, MOVS PC, LR, MSR, register
\* writes) each mode other than the current one keeps in its bank the SP/LR
\* pair that was visible when it was last left, and a step that changes the
\* mode to M brings in exactly that pair: SP and LR visible on re-entering M
\* are the ones M was left with, with LR then taking the return address
\* when the switch is an exception entry.
C6_BankedPairPreserved ==
    [][cpuGhost'.steps = cpuGhost.steps + 1
          => /\ \A m \in Modes \ {Mode(cpu')} :
                    cpu'.bank[m] = cpuGhost'.left[m]
             /\ \A m \in Modes \ {Mode(cpu), Mode(cpu')} :
                    cpu'.bank[m] = cpu.bank[m]
             /\ Mode(cpu') # Mode(cpu)
                    => /\ cpuGhost'.entered = cpuGhost.left[Mode(cpu')]
                       /\ cpu'.regs.sp = cpuGhost.left[Mode(cpu')].sp
                       /\ IF cpuGhost'.op \in ExceptionKinds
                          THEN cpu'.regs.lr
                                   = cpu'.last_exception.value.return_address
                          ELSE cpu'.regs.lr = cpuGhost.left[Mode(cpu')].lr]_vars

\* C6 witness: user mode wrote SP = 1 and LR = 2, an exception mode was
\* entered and wrote SP = 2, and MOVS PC, LR brought the CPU back to user
\* mode, where SP = 1 and LR = 2 are visible again while the exception
\* mode's bank keeps SP = 2.
C6_Witness ==
    /\ cpuGhost.op = "MOVS"
    /\ Mode(cpu) = MODE_USR
    /\ cpu.regs.sp = 1
    /\ cpu.regs.lr = 2
    /\ \E m \in ExceptionModes :
           cpu.bank[m].sp = 2 /\ cpuGhost.left[m].sp = 2

\* C7: the TLB is transparent: whenever no translation-table word was
\* changed in memory since the TLB was last empty, a translate call returns
\* the result (physical address or fault kind) a table walk with an empty
\* TLB returns for the same arguments under the current control, TTBR0 and
\* DACR; so after a TTBR0 write the descriptor at the new
\* TTBR0 + (va >> 20) * 4 decides.
C7_TlbTransparent ==
    (xlat.called /\ xlat.clean) => xlat.result = Walk

\* C7 witness: after TTBR0 was written with the second table, whose word for
\* the section differs from the first table's, a translation served from the
\* TLB returned the physical address the second table maps the section to.
C7_Witness ==
    /\ xlat.called
    /\ xlat.hit
    /\ xlat.clean
    /\ mmu.ttbr0 = TableBase(2)
    /\ MemWord(mem, DescAddr)
           # MemWord(mem, TableBase(1) + (xlat.va \div SectionSize) * 4)
    /\ MemWord(mem, TableBase(1) + (xlat.va \div SectionSize) * 4) % 4 = 2
    /\ xlat.result = Ok(TlbEntryOf(MemWord(mem, DescAddr)).pa_section
                            + (xlat.va % SectionSize))

\* C8: with the MMU enabled, a translate call for a VA whose descriptor word,
\* as stored at TTBR0 + (va >> 20) * 4 when the call is made, has low two
\* bits other than 0b10 returns a translation fault, whatever translations
\* and memory writes came before.
C8_NonSectionFaults ==
    (/\ xlat.called
     /\ MmuEnabled(mmu)
     /\ ~DescNow.none
     /\ DescNow.value % 4 # 2)
        => xlat.result = Fault("Translation")

\* C9: with the MMU enabled, the table unchanged since the TLB was last
\* empty and the section's domain in client mode, a write access to a
\* section whose descriptor has APX = 1 returns a permission fault, for
\* every AP and for privileged and unprivileged callers.
C9_ApxWriteFaults ==
    (/\ xlat.called
     /\ MmuEnabled(mmu)
     /\ xlat.clean
     /\ xlat.access = "Write"
     /\ ~DescNow.none
     /\ DescNow.value % 4 = 2
     /\ (DescNow.value \div 32768) % 2 = 1
     /\ (mmu.dacr \div (4 ^ ((DescNow.value \div 32) % 16))) % 4 = 1)
        => xlat.result = Fault("Permission")

\* C10: the access decision of translate equals the reference table.  For a
\* section descriptor (unchanged since the TLB was last empty) with fields
\* AP, APX, XN and domain: a DACR mode of 00 or 10 for the domain gives a
\* domain fault; in client mode (01) an execute access to an XN section
\* gives a permission fault, and otherwise AP = 00 permits nothing, AP = 01
\* permits privileged accesses only, AP = 10 permits every privileged access
\* and unprivileged read and execute, AP = 11 permits everything except
\* writes when APX = 1; a permitted access returns the section base plus
\* the offset and a refused one a permission fault.
C10_ClientAccessTable ==
    (/\ xlat.called
     /\ MmuEnabled(mmu)
     /\ xlat.clean
     /\ ~DescNow.none
     /\ DescNow.value % 4 = 2)
        => LET d == DescNow.value
               ap == (d \div 1024) % 4
               apx == (d \div 32768) % 2
               xn == (d \div 16) % 2
               mode == (mmu.dacr \div (4 ^ ((d \div 32) % 16))) % 4
               permitted ==
                   CASE ap = 0 -> FALSE
                     [] ap = 1 -> xlat.privileged
                     [] ap = 2 -> xlat.privileged \/ xlat.access # "Write"
                     [] ap = 3 -> ~(apx = 1 /\ xlat.access = "Write")
           IN  /\ mode \in {0, 2} => xlat.result = Fault("Domain")
               /\ mode = 1 =>
                      IF (xn = 1 /\ xlat.access = "Execute") \/ ~permitted
                      THEN xlat.result = Fault("Permission")
                      ELSE xlat.result
                               = Ok((d - (d % SectionSize))
                                        + (xlat.va % SectionSize))

\* C10 witness: with domain 1 in client mode, an unprivileged write to a
\* section of domain 1 with AP = 10 was refused with a permission fault by
\* an entry served from the TLB.
C10_Witness ==
    /\ xlat.called
    /\ xlat.hit
    /\ xlat.clean
    /\ mmu.dacr = 4
    /\ ~DescNow.none
    /\ DescNow.value = Descriptor(8 * SectionSize, 0, 2, 1, 0, 2)
    /\ xlat.access = "Write"
    /\ ~xlat.privileged
    /\ xlat.result = Fault("Permission")

C12_IpcRoundTrip ==
    codec.stage = "parsed" => codec.parsed = Some(codec.msg)

\* C12 witness: a message with a normal word and a static buffer followed by
\* a copy handle at the top of the 28-bit range was encoded to five words
\* and parsed back.
C12_Witness ==
    /\ codec.stage = "parsed"
    /\ Len(codec.words) = 5
    /\ codec.msg.descriptors
           = <<StaticBuffer(15, -1, 16777215), CopyHandle(268435455)>>
    /\ ~codec.parsed.none
    /\ codec.parsed.value.descriptors = codec.msg.descriptors

\* The lines that are raised, not cleared since, and let through by the mask.
ActiveLines == {line \in IrqLines : line \in irq.raised
                                    /\ BitOf(irq.ctl.enabled, line) = 1}

\* C17: next_pending returns Timer0 if it is pending and enabled, otherwise
\* VBlank if it is, otherwise Dma0 if it is, otherwise None; the line it
\* returns is always one that was raised and not cleared and that the enabled
\* mask lets through, after any sequence of raise, clear, set_enabled_mask
\* and reset.
C17_NextPendingPriority ==
    irq.op = "next_pending" =>
        /\ irq.polled = (IF Timer0 \in ActiveLines THEN Some(Timer0)
                         ELSE IF VBlankLine \in ActiveLines THEN Some(VBlankLine)
                         ELSE IF Dma0 \in ActiveLines THEN Some(Dma0)
                         ELSE None)
        /\ ~irq.polled.none => irq.polled.value \in ActiveLines

\* next_pending passes over a masked Timer0 and a cleared VBlank and returns
\* Dma0.
C17_Witness ==
    /\ irq.op = "next_pending"
    /\ irq.polled = Some(Dma0)
    /\ Timer0 \in irq.raised
    /\ BitOf(irq.ctl.enabled, Timer0) = 0
    /\ VBlankLine \notin irq.raised

\* floor(total * hz / CPU_HZ), computed with the fraction hz / CPU_HZ in
\* lowest terms so that the product stays within the integers at hand.
RECURSIVE Gcd(_, _)
Gcd(a, b) == IF b = 0 THEN a ELSE Gcd(b, a % b)
ScaledFloor(total, hz) ==
    (total * (hz \div Gcd(hz, CPU_HZ))) \div (CPU_HZ \div Gcd(hz, CPU_HZ))

\* C20: after any sequence of ticks since reset, the audio samples produced
\* total floor(cycles * 48000 / 268000000), the video frames produced total
\* floor(cycles * 60 / 268000000), and both phase accumulators are below
\* CPU_HZ, however the cycles were split into ticks.
C20_AccumulatorsExact ==
    /\ timing.model.audio_samples_due = ScaledFloor(timing.total, AUDIO_HZ)
    /\ timing.model.video_frames_due = ScaledFloor(timing.total, VIDEO_HZ)
    /\ timing.model.audio_phase < CPU_HZ
    /\ timing.model.video_phase < CPU_HZ

\* A first video frame has been produced by ticks of both sizes.
C20_Witness ==
    /\ timing.model.video_frames_due = 1
    /\ timing.model.audio_samples_due > 0
    /\ timing.total % MaxTickCycles # 0

\* What an exception entry of the given kind must leave behind; cpu.regs.pc
\* before the step is the address of the instruction (for an IRQ: the
\* current PC).
EntryOf(kind, vector_offset, mode, lr_offset) ==
    (cpuGhost'.steps = cpuGhost.steps + 1 /\ cpuGhost'.op = kind) =>
        /\ cpu'.regs.pc = 1048576 + vector_offset
        /\ cpu'.cpsr.mode = mode
        /\ cpu'.cpsr.i
        /\ ~cpu'.cpsr.t
        /\ cpu'.regs.lr = cpu.regs.pc + lr_offset

\* C18: every exception entry sets PC to the vector of its kind (0x0010_0000
\* plus 4 for undefined, 8 for SWI, 0xC for prefetch abort, 0x10 for data
\* abort, 0x18 for IRQ), switches to mode UND, SVC, ABT, ABT, IRQ
\* respectively, sets the I bit, clears the T bit, and sets the new mode's LR
\* to the instruction address + 4 (undefined, SWI, prefetch abort), the
\* instruction address + 8 (data abort, in ARM and in Thumb state) or the
\* current PC + 4 (IRQ).
C18_ExceptionEntry ==
    [][/\ EntryOf("UndefinedInstruction", 4, 27, 4)
       /\ EntryOf("SoftwareInterrupt", 8, 19, 4)
       /\ EntryOf("PrefetchAbort", 12, 23, 4)
       /\ EntryOf("DataAbort", 16, 23, 8)
       /\ EntryOf("Interrupt", 24, 18, 4)]_vars

\* A data abort has been taken by an instruction at the SWI vector: LR holds
\* the vector address + 8.
C18_Witness ==
    /\ cpuGhost.op = "DataAbort"
    /\ cpu.regs.pc = VECTOR_DABT
    /\ cpu.regs.lr = VECTOR_SWI + 8
    /\ cpu.cpsr.mode = MODE_ABT

\* The error run_cycles returns for an MMU fault of the given kind.
MmuErrorKind(kind) ==
    CASE kind = "Translation" -> "MmuTranslationFault"
      [] kind = "Domain" -> "MmuDomainFault"
      [] kind = "Permission" -> "MmuPermissionFault"

C13_HaltedCpuWakes ==
    /\ []((emu.cycle.ran /\ emu.cpu.state = "Halted")
              => (emu.result.kind = "Ok" /\ emu.result.executed >= 1))
    /\ (emu.rom_loaded /\ emu.cpu.state = "Halted"
        /\ emu.scheduler.pending # <<>>)
           ~> (emu.cpu.state = "Running")
\* The transfer a handled DMA-completion event found: the first one in
\* flight on its channel, 0 for none.
HandledIdx == FirstOnChannel(emu.dmaDone.in_flight_before, emu.dmaDone.channel)
HandledTransfer == emu.dmaDone.in_flight_before[HandledIdx]

\* The engine's queue without its entry idx.
WithoutEntry(in_flight, idx) ==
    SubSeq(in_flight, 1, idx - 1) \o SubSeq(in_flight, idx + 1, Len(in_flight))

\* What every handled completion event does besides copying: with a
\* transfer in flight on the channel the oldest such transfer leaves the
\* queue and the DMA-0 line is pending; with none the queue, the memory and
\* the interrupt controller are as before.
DmaRemovesAndSignals ==
    IF HandledIdx # 0
    THEN /\ emu.dmaDone.in_flight_after =
                WithoutEntry(emu.dmaDone.in_flight_before, HandledIdx)
         /\ BitAnd(emu.dmaDone.irq_after.pending, LineBit(Dma0)) # 0
    ELSE /\ emu.dmaDone.in_flight_after = emu.dmaDone.in_flight_before
         /\ emu.dmaDone.memory_after = emu.dmaDone.memory_before
         /\ emu.dmaDone.irq_after = emu.dmaDone.irq_before

\* Destination word i of the handled transfer holds what source word i held
\* before the transfer.
WordCopied(i) ==
    MemoryReadU32(emu.dmaDone.memory_after, HandledTransfer.destination + 4 * i)
        = MemoryReadU32(emu.dmaDone.memory_before, HandledTransfer.source + 4 * i)

WritableWord(m, addr) ==
    \A k \in 0..3 :
        /\ FindSegmentIndex(m, addr + k) # 0
        /\ m.segments[FindSegmentIndex(m, addr + k)].writable

\* The source and destination byte ranges of a transfer share no byte.
RangesApart(transfer) ==
    \/ transfer.source + 4 * transfer.words <= transfer.destination
    \/ transfer.destination + 4 * transfer.words <= transfer.source

\* The bytes of the destination range of a transfer.
DestinationBytes(transfer) ==
    {transfer.destination + k : k \in 0..(4 * transfer.words - 1)}

\* Byte addresses looked at outside the destination range.
DmaProbeBytes ==
    {a + k : a \in {DmaSource, DmaOverlap, DmaOverlap + 4, DmaApart,
                    DmaApart + 4, BIOS_START},
             k \in 0..3}

Reload(g, call) ==
    CASE call.op = "vertex" -> LoadVertexStream(g, call.words)
      [] call.op = "index" -> LoadIndexStreamU16(g, call.indices)
      [] OTHER -> LoadTextureRgba8(g, call.width, call.height, call.texels)

RECURSIVE Reloaded(_, _)
Reloaded(g, loads) ==
    IF loads = <<>> THEN g
    ELSE Reloaded(Reload(g, Head(loads)), Tail(loads))

RECURSIVE EnqueueTrace(_, _)
EnqueueTrace(g, trace) ==
    IF trace = <<>> THEN g
    ELSE EnqueueTrace(EnqueueRegisterWrite(g, Head(trace).reg,
                                           Head(trace).value),
                      Tail(trace))

\* The replay: a fresh GPU given the same data, the recorded trace enqueued
\* as single-write packets, and one tick.
GpuReplay == Tick(EnqueueTrace(Reloaded(PicaGpuNew, gpu.loads), gpu.g.trace))

\* C19: whatever FIFO words a GPU has processed, replaying its recorded
\* register-write trace as single-write packets on a fresh GPU that holds
\* the same vertex, index and texture data gives the same frame buffer, and
\* so the same frame-buffer hash.
C19_ReplaySameHash ==
    ~gpu.late_load =>
        /\ GpuReplay.frame_buffer = gpu.g.frame_buffer
        /\ DeterministicRenderHash(GpuReplay) = DeterministicRenderHash(gpu.g)

\* A GPU loaded with data has processed several writes, a draw among them,
\* and its frame buffer is no longer the one of a fresh GPU.
C19_Witness ==
    /\ ~gpu.late_load
    /\ Len(gpu.loads) = 3
    /\ Len(gpu.g.trace) >= 4
    /\ gpu.g.events # <<>>
    /\ \E i \in DOMAIN gpu.g.frame_buffer :
           /\ gpu.g.frame_buffer[i] # PicaGpuNew.frame_buffer[i]
           /\ gpu.g.frame_buffer[i] # WordLe(17, 34, 51, 255)
    /\ DeterministicRenderHash(gpu.g) # DeterministicRenderHash(PicaGpuNew)

\* The budget the drift rule gives for a drift.
BudgetFor(t, drift, requested) ==
    IF drift > t.drift_policy.max_frame_lead_us
    THEN (IF requested \div 2 > 1 THEN requested \div 2 ELSE 1)
    ELSE IF drift < -t.drift_policy.max_frame_lag_us
    THEN requested + requested \div 2
    ELSE requested

\* C21: recommended_cycle_budget(now_us, requested) is max(requested/2, 1)
\* when drift > max_lead, requested + requested/2 when drift < -max_lag and
\* requested otherwise, with drift = emulated_us - (now_us - anchor_us),
\* also when now_us is earlier than the anchor.
C21_BudgetFollowsDrift ==
    timing.budget # None =>
        LET call == timing.budget.value
            t == timing.model
            drift == EmulatedTimeUs(t) - (call.now - t.wall_time_anchor_us)
        IN  call.result = BudgetFor(t, drift, call.requested)

\* What the services keep: everything of the kernel but the request and
\* response queues, the result codes and last_ipc.
ServiceState(k) ==
    [next_handle |-> k.next_handle,
     service_ports |-> k.service_ports,
     registry |-> k.registry,
     app_state |-> k.app_state,
     gpu_handoff |-> k.gpu_handoff,
     hid_state |-> k.hid_state,
     romfs_mounted |-> k.romfs_mounted,
     handles |-> [pid \in DOMAIN k.processes |-> k.processes[pid].handles]]

\* The step dispatches the oldest request of process pid.
Dispatches(pid) ==
    /\ pid \in DOMAIN kernel.processes
    /\ pid \in DOMAIN kernel'.processes
    /\ kernel.processes[pid].pending_requests # <<>>
    /\ kernel'.processes[pid].pending_requests =
           Tail(kernel.processes[pid].pending_requests)

\* The session handle of the oldest request of pid is unbound in pid or
\* bound to an object that is not a session.
StaleRequest(pid) ==
    LET req == Head(kernel.processes[pid].pending_requests)
        object == LookupObject(kernel, pid, req.session_handle)
    IN  object.none \/ object.value.type # "Session"

\* C22: a request whose session handle is, when it is dispatched, unbound
\* in the calling process or bound to a non-session object produces exactly
\* one response, with result invalid-handle, and changes no service state.
C22_InvalidHandleResponse ==
    [][\A pid \in Pids :
          (Dispatches(pid) /\ StaleRequest(pid)) =>
              LET req == Head(kernel.processes[pid].pending_requests)
              IN  /\ kernel'.processes[pid].pending_responses =
                         Append(kernel.processes[pid].pending_responses,
                                [result_code |-> RESULT_INVALID_HANDLE,
                                 words |-> <<>>,
                                 seq |-> req.seq])
                  /\ \A other \in DOMAIN kernel.processes \ {pid} :
                         kernel'.processes[other].pending_responses =
                             kernel.processes[other].pending_responses
                  /\ ServiceState(kernel') = ServiceState(kernel)]_vars

\* Process 1, the only one to have issued requests, named handle 38 in the
\* request dispatched last, holds an archive under it, and was answered
\* invalid-handle.
C22_Witness ==
    /\ kghost.issued[2] = 0
    /\ kernel.last_ipc # None
    /\ kernel.last_ipc.value[2] = FirstHandle + 6
    /\ kernel.last_ipc.value[3] = RESULT_INVALID_HANDLE
    /\ HandleType(kernel, KERNEL_PROCESS_ID, FirstHandle + 6) = Some("Archive")
    /\ kernel.processes[KERNEL_PROCESS_ID].pending_requests = <<>>
    /\ Len(kernel.processes[KERNEL_PROCESS_ID].pending_responses) = 2
    /\ kernel.processes[KERNEL_PROCESS_ID].pending_responses[2].result_code =
           RESULT_INVALID_HANDLE

\* close_handle(pid, handle), called in the current state and leaving the
\* kernel `after`, removed the binding and left every other one as it was.
ClosedOnly(after, pid, handle) ==
    /\ HandleType(after, pid, handle) = None
    /\ \A q \in Pids, g \in FirstHandle..HandleMax :
           <<q, g>> # <<pid, handle>> =>
               HandleType(after, q, g) = HandleType(kernel, q, g)

\* duplicate_handle(pid, handle), called in the current state, returning
\* dup and leaving the kernel `after`: dup is a token other than handle and
\* both resolve to the type handle resolved to.
DuplicatedApart(after, pid, handle, dup) ==
    /\ dup # handle
    /\ HandleType(after, pid, dup) = HandleType(kernel, pid, handle)
    /\ HandleType(after, pid, handle) = HandleType(kernel, pid, handle)

\* C23: close_handle(p, h) removes only the binding of h in p, every other
\* handle of p (duplicates of h among them) and of every other process
\* resolving to the same type as before; duplicate_handle(p, h) returns a
\* token different from h that resolves to the same type in p.  Stated of
\* the two calls made in any state the kernel reaches.
C23_CloseAndDuplicateFrame ==
    \A pid \in Pids, handle \in FirstHandle..HandleMax :
        /\ CloseHandle(kernel, pid, handle).ret =>
               ClosedOnly(CloseHandle(kernel, pid, handle).k, pid, handle)
        /\ ~DuplicateHandle(kernel, pid, handle).ret.none =>
               DuplicatedApart(DuplicateHandle(kernel, pid, handle).k, pid,
                               handle,
                               DuplicateHandle(kernel, pid, handle).ret.value)

\* What the claim gives for a zero shift amount: <<result, carry>>.
ZeroShift(carry_in, value, shift_type) ==
    CASE shift_type = 0 -> <<value, carry_in>>
      [] shift_type = 1 -> <<0, BitOf(value, 31) = 1>>
      [] shift_type = 2 -> <<IF BitOf(value, 31) = 1 THEN -1 ELSE 0,
                             BitOf(value, 31) = 1>>
      [] OTHER ->
             <<WordOfBits([k \in 0..31 |->
                              IF k = 31 THEN (IF carry_in THEN 1 ELSE 0)
                              ELSE BitOf(value, k + 1)]),
               BitOf(value, 0) = 1>>

\* C24: with a zero shift amount the shifter gives, for a value v and
\* carry-in C: LSL #0 (v, C); LSR #0 (0, bit 31 of v); ASR #0 (every bit
\* equal to bit 31 of v, bit 31 of v); ROR #0 acts as RRX, giving
\* ((C << 31) | (v >> 1), bit 0 of v).
C24_ZeroShiftAmount ==
    (shifter.ran /\ shifter.shift_imm = 0) =>
        <<shifter.result, shifter.carry>> =
            ZeroShift(shifter.carry_in, shifter.value, shifter.shift_type)

\* C25: when several processes have pending requests, pump_ipc_events(1)
\* dispatches the request of the process with the smallest process id.
C25_PumpSmallestPid ==
    [][\A pid \in Pids :
          Dispatches(pid) =>
              \A q \in DOMAIN kernel.processes :
                  kernel.processes[q].pending_requests # <<>> => pid <= q]_vars

\* The number of IPC requests queued in the kernel, all processes together.
PendingRequestCount(k) ==
    Cardinality(UNION {{pid} \X DOMAIN k.processes[pid].pending_requests :
                           pid \in DOMAIN k.processes})

\* The requests one iteration of the run_cycles loop dequeues when the CPU
\* decodes instr, for one iteration order of the process map.
DequeuedInCycle(instr, order) ==
    PendingRequestCount(kernel)
        - PendingRequestCount(
              RunCycle([e |-> emu, k |-> kernel, r |-> ram],
                       instr, order).m.k)

WakeScheduled(s, pid) ==
    \E i \in DOMAIN s.pending :
        /\ s.pending[i].event.kind = "ServiceWake"
        /\ s.pending[i].event.pid = pid
        /\ s.pending[i].at_cycle > s.cycles

\* After the kernel state k, a request queued by pid on the apt:u session
\* stays queued over a pump of budget 1, in every iteration order.
SkippedByPump(k, pid) ==
    LET queued == QueueIpcCommand(k, pid, FirstHandle + 5,
                                  CommandWords(1, <<>>), 0)
    IN  \A order \in IterationOrders(queued) :
            PumpIpcEvents(queued, order, 1).processes[pid].pending_requests
                = queued.processes[pid].pending_requests

\* C27: a cycle whose instruction is SWI 0x32, run while the calling
\* process (process 1) has no queued request, leaves a service-wake event
\* for process 1 in the scheduler and process 1 blocked, so that the pump
\* skips a request it queues next; when the caller has a queued request the
\* system call pumps exactly one request.
C27_SendSyncBlocksOrPumps ==
    emu.rom_loaded =>
        \A order \in IterationOrders(EnsureProcess(kernel, 1)) :
            IF PendingRequestCount(kernel) = 0
            THEN LET c == RunCycle([e |-> emu, k |-> kernel, r |-> ram],
                                   Swi(50), order)
                 IN  /\ WakeScheduled(c.m.e.scheduler, 1)
                     /\ SkippedByPump(c.m.k, 1)
            ELSE (1 \in DOMAIN kernel.processes
                      /\ kernel.processes[1].pending_requests # <<>>)
                     => PendingRequestCount(kernel)
                            - PendingRequestCount(
                                  DispatchSyscall(kernel, 1, 50, order)) = 1

\* The lines pending in the controller c.
PendingLines(c) == {line \in IrqLines : BitOf(c.pending, line) = 1}

\* The lines pending and enabled in the controller c.
DeliverableLines(c) ==
    {line \in PendingLines(c) : BitOf(c.enabled, line) = 1}

\* The lines whose interrupt the CPU entered before the step of the last
\* cycle.
TakenLines ==
    {line \in IrqLines :
        emu.cycle.delivery.entered
            = Some([kind |-> "Interrupt", fault_opcode |-> line])}

\* C28: in a cycle of run_cycles the CPU enters the interrupt of a line only
\* if its interrupts were enabled at the start of the cycle and the line is
\* the first of Timer0, VBlank, Dma0 that is pending and enabled; the line
\* is no longer pending when the CPU step begins; at most one interrupt is
\* entered; the lines cleared before the step are exactly the ones entered,
\* and no line pending when the step begins is cleared in the rest of the
\* cycle.
C28_IrqDelivery ==
    emu.cycle.ran =>
        LET d == emu.cycle.delivery
        IN  /\ \A line \in TakenLines :
                   /\ d.enabled
                   /\ line \in DeliverableLines(d.before)
                   /\ \A other \in DeliverableLines(d.before) : line <= other
                   /\ line \notin PendingLines(d.at_step)
            /\ Cardinality(TakenLines) <= 1
            /\ PendingLines(d.before) \ PendingLines(d.at_step) = TakenLines
            /\ PendingLines(d.at_step) \subseteq PendingLines(d.after)
            /\ d.at_step.enabled = d.before.enabled
            /\ (d.enabled /\ DeliverableLines(d.before) # {})
                   => TakenLines # {}

\* The CPU entered the VBlank interrupt while Dma0 was pending too; Dma0 is
\* still pending at the end of the cycle.
C28_Witness ==
    /\ emu.cycle.ran
    /\ TakenLines = {VBlankLine}
    /\ Dma0 \in PendingLines(emu.cycle.delivery.before)
    /\ Dma0 \in PendingLines(emu.cycle.delivery.after)

\* C29: whenever the CPU is about to step, PC is a multiple of the size of
\* the instructions of the current state: 4 in ARM state, 2 in Thumb state.
C29_PcAligned ==
    IF cpu.cpsr.t THEN cpu.regs.pc % 2 = 0 ELSE cpu.regs.pc % 4 = 0

\* C30: a write to the control word, to TTBR0 or to DACR leaves the TLB
\* empty, whatever value is written, in every state the MMU can be in.
C30_WritesFlushTlb ==
    /\ \A value \in ControlInputs : TlbEmpty(WriteControl(mmu, value))
    /\ \A value \in Ttbr0Inputs : TlbEmpty(WriteTtbr0(mmu, value))
    /\ \A value \in {0, 1} : TlbEmpty(WriteDacr(mmu, value))

\* s is a suffix of t.
IsSuffix(s, t) ==
    Len(s) <= Len(t) /\ SubSeq(t, Len(t) - Len(s) + 1, Len(t)) = s

\* C31: the words a DMA completion handled in a cycle feeds to the GPU are
\* not applied in that cycle: at the end of the cycle they are still the
\* newest words of the GPU FIFO.
C31_FedWordsWaitOneCycle ==
    (emu.cycle.ran /\ emu.cycle.fed # <<>>)
        => IsSuffix(emu.cycle.fed, emu.gpu.fifo)

\* addr lies in a writable segment of the memory m.
WritableAt(m, addr) ==
    FindSegmentIndex(m, addr) # 0
        /\ m.segments[FindSegmentIndex(m, addr)].writable

\* The memories m and n hold the same byte at every address the inputs
\* cover.
SameBytes(m, n) ==
    \A a \in MemReadInputs : MemoryReadU8Checked(m, a) = MemoryReadU8Checked(n, a)

\* C32: a word write, checked or tolerant, whose four bytes are not all in
\* writable mapped memory changes no byte of memory.
C32_WordWriteAllOrNothing ==
    \A addr \in MemAddrInputs, value \in {67305985, 134678021} :
        (\E k \in 0..3 : ~WritableAt(ram, addr + k))
            => /\ SameBytes(MemoryWriteU32Checked(ram, addr, value).memory, ram)
               /\ SameBytes(MemoryWriteU32(ram, addr, value), ram)

\* The entries of a sequence of scheduled events, and their insertion
\* numbers.
EntriesOf(s) == {s[i] : i \in DOMAIN s}
OrdersOf(s) == {s[i].order : i \in DOMAIN s}

\* The step is a drain_due_events call that returned or removed something,
\* or followed a drain that had returned something.
DrainStep ==
    /\ sched'.cycles = sched.cycles
    /\ sched'.next_order = sched.next_order
    /\ <<sched, drained>>' # <<sched, drained>>

\* No two pending events share an insertion number, and an event the last
\* drain returned is not pending, nor can a later schedule call bring its
\* insertion number back.
DeliveredOnce ==
    /\ Cardinality(OrdersOf(sched.pending)) = Len(sched.pending)
    /\ Cardinality(OrdersOf(drained)) = Len(drained)
    /\ OrdersOf(sched.pending) \cap OrdersOf(drained) = {}
    /\ \A order \in OrdersOf(sched.pending) \cup OrdersOf(drained) :
           order < sched.next_order

\* C33: a drain returns exactly the pending events whose fire-at cycle is at
\* or before the cycle counter, each once, and keeps exactly the others; it
\* returns no event that fires later and leaves none that is due, so a second
\* drain straight after it returns nothing; an event that was returned is not
\* pending again.
C33_DeliveredOnceNeverEarly ==
    /\ []DeliveredOnce
    /\ [][DrainStep =>
             /\ \A i \in DOMAIN drained' :
                    drained'[i].at_cycle <= sched.cycles
             /\ \A i \in DOMAIN sched'.pending :
                    sched'.pending[i].at_cycle > sched.cycles
             /\ EntriesOf(drained') \cup EntriesOf(sched'.pending)
                    = EntriesOf(sched.pending)
             /\ Len(drained') + Len(sched'.pending) = Len(sched.pending)
             /\ SortByKey(DueOf(sched')) = <<>>]_vars

\* A drain returned two events, one of them firing exactly at the current
\* cycle, and left a later one pending.
C33_Witness ==
    /\ Len(drained) = 2
    /\ \E i \in DOMAIN drained : drained[i].at_cycle = sched.cycles
    /\ \E i \in DOMAIN drained : drained[i].at_cycle < sched.cycles
    /\ Len(sched.pending) = 1
    /\ sched.pending[1].at_cycle > sched.cycles

\* C34: over a call of run_cycles the kernel dispatches one system call for
\* each SWI instruction the CPU executed, no more and no fewer.
C34_OneSyscallPerSwi ==
    emu.calls.syscalls = emu.calls.swis

\* C35: a transfer queued by queue_dma_memcpy or queue_dma_gpu_feed is
\* executed no earlier than max(words, 1) cycles after it was queued: when
\* a completion event executes a transfer, none of the transfer's cycles
\* are still to pass.
C35_NeverExecutedEarly ==
    emu.dmaDone.handled => emu.dmaDone.early = 0

\* enqueue(a); tick; enqueue(b); tick on a GPU whose FIFO is empty, where a
\* is the first `split` words of the GPU's FIFO and b the others.
SplitTick(g, split) ==
    LET a == SubSeq(g.fifo, 1, split)
        b == SubSeq(g.fifo, split + 1, Len(g.fifo))
        empty == [g EXCEPT !.fifo = <<>>]
    IN  Tick(EnqueueGspFifoWords(Tick(EnqueueGspFifoWords(empty, a)), b))

\* C36: the register writes the GPU applies depend on the concatenated FIFO
\* word stream only: for every split point of the words in the FIFO,
\* enqueueing and ticking the two parts one after the other leaves the same
\* trace of register writes and the same GPU state as one tick over all
\* the words.
C36_SplitIndependent ==
    \A split \in 0..Len(gpu.g.fifo) :
        /\ SplitTick(gpu.g, split).trace = Tick(gpu.g).trace
        /\ SplitTick(gpu.g, split) = Tick(gpu.g)

\* A step in which load_rom returned an error after an earlier call that
\* did not.
LoadRomFailed ==
    emu'.load_result = "RomTooSmall" /\ emu.load_result # "RomTooSmall"

\* C37: a load_rom call that returns an error leaves the emulator as it
\* was: the memory contents, the ROM-loaded flag, the CPU, the scheduler,
\* the interrupt controller and the DMA engine are those before the call.
C37_FailedLoadChangesNothing ==
    [][LoadRomFailed =>
           /\ ram' = ram
           /\ emu'.rom_loaded = emu.rom_loaded
           /\ emu'.cpu = emu.cpu
           /\ emu'.scheduler = emu.scheduler
           /\ emu'.irq = emu.irq
           /\ emu'.dma = emu.dma]_vars

\* The command table of each service the kernel boots with, other than the
\* broker's (kernel.rs ServiceRegistry::bootstrap).
OwnTarget(name) ==
    CASE name = "fs:USER" -> "Fs"
      [] name = "apt:u" -> "Apt"
      [] name = "gsp::Gpu" -> "GspGpu"
      [] name = "hid:USER" -> "HidUser"

\* C38: after any sequence of IPC requests, srv: RegisterService included,
\* a session obtained for fs:USER, apt:u, gsp::Gpu or hid:USER is a session
\* of that service's own command table.
C38_RegisteredNamesKeepHandler ==
    \A pid \in Pids, name \in {"fs:USER", "apt:u", "gsp::Gpu", "hid:USER"} :
        LET c == ConnectToService(kernel, pid, name)
            object == LookupObject(c.k, pid, c.ret.value)
        IN  (~c.ret.none /\ ~object.none)
                => object.value = Session(OwnTarget(name))

\* C39: an instruction executed in user mode that is no exception entry
\* leaves the CPSR mode bits and interrupt-disable bit as they are, and
\* leaves the MMU control word, TTBR0 and DACR as they are.
C39_UserModeKeepsPrivilegedState ==
    [][(~IsPrivileged(cpu) /\ cpuGhost'.op \notin ExceptionKinds) =>
           /\ cpu'.cpsr.mode = cpu.cpsr.mode
           /\ cpu'.cpsr.i = cpu.cpsr.i
           /\ mmu'.control = mmu.control
           /\ mmu'.ttbr0 = mmu.ttbr0
           /\ mmu'.dacr = mmu.dacr]_vars

\* A step of a successful load_rom.
LoadRomStep == emu' = LoadRom(emu) /\ ram' = ClearWritable(ram)

\* C40: a successful load_rom leaves the emulator in the state loading the
\* image into a newly constructed emulator leaves it in: the kernel is a
\* newly booted one, and the GPU, the interrupt controller, the CPU, the
\* scheduler and the DMA engine are those of the new emulator after the
\* load.
C40_LoadRomAsNew ==
    [][LoadRomStep =>
           /\ kernel' \in {KernelNew(names) : names \in BootOrders}
           /\ emu'.gpu = LoadRom(EmulatorNew).gpu
           /\ emu'.irq = LoadRom(EmulatorNew).irq
           /\ emu'.cpu = LoadRom(EmulatorNew).cpu
           /\ emu'.scheduler = LoadRom(EmulatorNew).scheduler
           /\ emu'.dma = LoadRom(EmulatorNew).dma]_vars

====
